---- MODULE Spec2Model ----
(***************************************************************************)
(* Speech-therapy backend: performance aggregation, profile analysis and   *)
(* learning-path generation, modelled over the shared store.               *)
(*                                                                         *)
(* Numbers.  overall_score is a Python float computed as                   *)
(*   (verbal_success*0.7 + selection_success*0.3) /                        *)
(*   (verbal_attempts*0.7 + selection_attempts*0.3).                       *)
(* The model keeps it as the exact fraction <<num, den>> with              *)
(* num = 7*vs + 3*ss and den = 7*va + 3*sa (both sides times 10) and       *)
(* compares by cross-multiplication.  For every attempt history of up to   *)
(* five attempts the float comparisons of the code (>= 0.7, <= 0.3, and    *)
(* the mean against 0.75 and 0.5) give the same answers as the exact       *)
(* ones.  target_score is kept in tenths (0.9 is 9).  For the longer       *)
(* histories of SpecPath the float and the exact value differ only where   *)
(* the exact score sits on a threshold (12 verbal attempts with 9 correct  *)
(* give 0.7500000000000001); 9 of 13 verbal with 3 failed selections give  *)
(* 0.63 in both, and 0.63 > 0.7 * 0.9 is false in both.                    *)
(* Similarities of the phonetic engine are exact fractions as well; the    *)
(* comparison with 0.7 agrees with the float one on the texts of the       *)
(* model.                                                                  *)
(***************************************************************************)
EXTENDS Integers, Sequences, FiniteSets, Bags, TLC

(***************************************************************************)
(* Bounds of the model.                                                    *)
(***************************************************************************)
MaxAttempts == 3

(***************************************************************************)
(* Reference data: children, the activity catalog in insertion order, and  *)
(* the therapy sessions.                                                   *)
(***************************************************************************)
Children == {"c1", "c2"}

Catalog ==
    << [id |-> "k1", difficulty_level |-> "hard"],
       [id |-> "k2", difficulty_level |-> "medium"],
       [id |-> "k3", difficulty_level |-> "easy"],
       [id |-> "k4", difficulty_level |-> "None"],
       [id |-> "k5", difficulty_level |-> "hard"] >>

CategoryIds == {Catalog[i].id : i \in 1..Len(Catalog)}

\* TherapySession rows: child c1 has a session in k1 and one in k2; child c2
\* has none yet.
Sessions == {[child_id |-> "c1", category_id |-> k] : k \in {"k1", "k2"}}

\* the session whose (child, category) two concurrent requests aggregate
RaceSessions == {[child_id |-> "c1", category_id |-> "k1"]}

\* response_type is a free string of the request body; these are the three
\* literals the code base compares it with.
ResponseTypes == {"verbal", "select", "nonverbal"}

AttemptKinds ==
    {[session |-> s, response_type |-> t, is_correct |-> b] :
        s \in Sessions, t \in ResponseTypes, b \in BOOLEAN}

Procs == {"p1", "p2"}

\* ActivityItem rows: difficulty_level may be NULL ("None"); audio_url and
\* image_url are kept as "is not None".
ItemCatalog ==
    << [id |-> "i1", category_id |-> "k1", difficulty_level |-> "easy",
        audio_url |-> TRUE, image_url |-> TRUE],
       [id |-> "i2", category_id |-> "k1", difficulty_level |-> "None",
        audio_url |-> TRUE, image_url |-> TRUE],
       [id |-> "i3", category_id |-> "k1", difficulty_level |-> "easy",
        audio_url |-> FALSE, image_url |-> TRUE],
       [id |-> "i4", category_id |-> "k1", difficulty_level |-> "medium",
        audio_url |-> TRUE, image_url |-> TRUE],
       [id |-> "i5", category_id |-> "k1", difficulty_level |-> "hard",
        audio_url |-> TRUE, image_url |-> TRUE],
       [id |-> "i6", category_id |-> "k1", difficulty_level |-> "hard",
        audio_url |-> TRUE, image_url |-> FALSE],
       [id |-> "i7", category_id |-> "k1", difficulty_level |-> "None",
        audio_url |-> TRUE, image_url |-> TRUE],
       [id |-> "i8", category_id |-> "k1", difficulty_level |-> "hard",
        audio_url |-> TRUE, image_url |-> TRUE] >>

NoRow == 0

VARIABLES
    session_activities,  \* SessionActivity rows: a bag of AttemptKinds
    child_performance,   \* ChildPerformance rows per (child, category), insertion order
    learning_paths,      \* LearningPath rows per child, insertion order
    pc,                  \* position of each request in flight
    call,                \* locals of each request in flight
    activity_items,      \* ActivityItem rows, in the order a query returns them
    active_connections,  \* ConnectionManager: the connection ids with a socket
    connection_sessions, \* ConnectionManager: connection id -> session id
    session_rooms        \* ConnectionManager: session id -> list of connection ids

\* the ConnectionManager of ws/websocket.py
manager == <<active_connections, connection_sessions, session_rooms>>

vars == <<session_activities, child_performance, learning_paths, pc, call,
          activity_items, manager>>

\* ConnectionManager.__init__
NewManager ==
    /\ active_connections = {}
    /\ connection_sessions = << >>
    /\ session_rooms = << >>

(***************************************************************************)
(* Small helpers.                                                          *)
(***************************************************************************)
TotalActivities == BagCardinality(session_activities)

\* sum(1 for a in activities if cond(a)) over a bag of attempt rows
CountWhere(acts, Cond(_)) ==
    BagCardinality([a \in {x \in BagToSet(acts) : Cond(x)} |-> acts[a]])

Min(a, b) == IF a < b THEN a ELSE b
Max(a, b) == IF a > b THEN a ELSE b

\* fractions <<num, den>>, den > 0
FracLt(x, y) == x[1] * y[2] < y[1] * x[2]
FracLe(x, y) == x[1] * y[2] <= y[1] * x[2]
FracEq(x, y) == x[1] * y[2] = y[1] * x[2]

NoCall == [child_id |-> "-", category_id |-> "-",
           verbal_attempts |-> 0, verbal_success |-> 0,
           selection_attempts |-> 0, selection_success |-> 0,
           performance |-> NoRow]

Init ==
    /\ session_activities = EmptyBag
    /\ child_performance = [c \in Children, k \in CategoryIds |-> << >>]
    /\ learning_paths = [c \in Children |-> << >>]
    /\ pc = [p \in Procs |-> "idle"]
    /\ call = [p \in Procs |-> NoCall]
    /\ activity_items = ItemCatalog
    /\ NewManager

(***************************************************************************)
(* Recording attempts.                                                     *)
(***************************************************************************)
AddActivity(a) ==
    session_activities' = session_activities (+) SetToBag({a})

\* POST /sessions/{id}/record-response: the body gives response_type and
\* is_correct.
record_response(s, t, b) ==
    /\ TotalActivities < MaxAttempts
    /\ AddActivity([session |-> s, response_type |-> t, is_correct |-> b])
    /\ UNCHANGED <<activity_items, manager, child_performance, learning_paths, pc, call>>

\* process_audio_response: always "verbal"; is_correct is the analysis result.
process_audio_response(s, b) ==
    /\ TotalActivities < MaxAttempts
    /\ AddActivity([session |-> s, response_type |-> "verbal", is_correct |-> b])
    /\ UNCHANGED <<activity_items, manager, child_performance, learning_paths, pc, call>>

(***************************************************************************)
(* update_performance_metrics(db, child_id, category_id)                   *)
(***************************************************************************)
\* the join of SessionActivity with TherapySession, filtered by child and category
ActivitiesOf(acts, c, k) ==
    LET mine == {a \in BagToSet(acts) :
                    a.session.child_id = c /\ a.session.category_id = k}
    IN  [a \in mine |-> acts[a]]

VerbalAttempts(acts) ==
    LET IsV(a) == a.response_type = "verbal" IN CountWhere(acts, IsV)

VerbalSuccess(acts) ==
    LET IsV(a) == a.response_type = "verbal" /\ a.is_correct IN CountWhere(acts, IsV)

SelectionAttempts(acts) ==
    LET IsS(a) == a.response_type = "select" IN CountWhere(acts, IsS)

SelectionSuccess(acts) ==
    LET IsS(a) == a.response_type = "select" /\ a.is_correct IN CountWhere(acts, IsS)

\* the score without the total_attempts > 0 test: the division by zero
\* shows as a zero denominator
OverallScoreUnguarded(va, vs, sa, ss) ==
    <<7 * vs + 3 * ss, 7 * va + 3 * sa>>

\* the score as 0.7 * (vs / va) + 0.3 * (ss / sa) where both ratios exist
OverallScoreOfRatios(va, vs, sa, ss) ==
    IF va > 0 /\ sa > 0 THEN <<7 * vs * sa + 3 * ss * va, 10 * va * sa>>
    ELSE IF va + sa > 0 THEN <<7 * vs + 3 * ss, 7 * va + 3 * sa>>
    ELSE <<0, 1>>

\* overall_score as <<num, den>>
OverallScore(va, vs, sa, ss) ==
    IF va + sa > 0 THEN <<7 * vs + 3 * ss, 7 * va + 3 * sa>> ELSE <<0, 1>>

PerformanceRow(cl) ==
    [overall_score |-> OverallScore(cl.verbal_attempts, cl.verbal_success,
                                    cl.selection_attempts, cl.selection_success),
     verbal_attempts |-> cl.verbal_attempts,
     verbal_success |-> cl.verbal_success,
     selection_attempts |-> cl.selection_attempts,
     selection_success |-> cl.selection_success]

\* lines 10-32: query the activities and compute the metrics
ComputeMetrics(acts, c, k) ==
    LET mine == ActivitiesOf(acts, c, k) IN
    [child_id |-> c, category_id |-> k,
     verbal_attempts |-> VerbalAttempts(mine),
     verbal_success |-> VerbalSuccess(mine),
     selection_attempts |-> SelectionAttempts(mine),
     selection_success |-> SelectionSuccess(mine),
     performance |-> NoRow]

\* lines 35-38: .first() without ORDER BY returns any matching row
FirstPerformance(perf, c, k) ==
    IF perf[c, k] = << >> THEN {NoRow} ELSE 1..Len(perf[c, k])

\* the row found patched by adding the new counts to its own
WritePerformanceIncrement(perf, cl) ==
    LET c == cl.child_id
        k == cl.category_id
        old == perf[c, k][cl.performance]
        sum == [cl EXCEPT !.verbal_attempts = @ + old.verbal_attempts,
                          !.verbal_success = @ + old.verbal_success,
                          !.selection_attempts = @ + old.selection_attempts,
                          !.selection_success = @ + old.selection_success]
    IN  IF cl.performance # NoRow
        THEN [perf EXCEPT ![c, k][cl.performance] = PerformanceRow(sum)]
        ELSE [perf EXCEPT ![c, k] = Append(@, PerformanceRow(cl))]

\* lines 40-58: overwrite the row found, or add a new one, and commit
WritePerformance(perf, cl) ==
    LET c == cl.child_id
        k == cl.category_id
    IN  IF cl.performance # NoRow
        THEN [perf EXCEPT ![c, k][cl.performance] = PerformanceRow(cl)]
        ELSE [perf EXCEPT ![c, k] = Append(@, PerformanceRow(cl))]

\* the whole call, run without another request in between
update_performance_metrics(c, k) ==
    /\ \E r \in FirstPerformance(child_performance, c, k) :
          child_performance' =
              WritePerformance(child_performance,
                  [ComputeMetrics(session_activities, c, k) EXCEPT !.performance = r])
    /\ UNCHANGED <<activity_items, manager, session_activities, learning_paths, pc, call>>

\* the same call as the three steps between which other requests can commit
UpdateQueryActivities(p, c, k) ==
    /\ pc[p] = "idle"
    /\ call' = [call EXCEPT ![p] = ComputeMetrics(session_activities, c, k)]
    /\ pc' = [pc EXCEPT ![p] = "lookup"]
    /\ UNCHANGED <<activity_items, manager, session_activities, child_performance, learning_paths>>

UpdateLookup(p) ==
    /\ pc[p] = "lookup"
    /\ \E r \in FirstPerformance(child_performance, call[p].child_id, call[p].category_id) :
          call' = [call EXCEPT ![p].performance = r]
    /\ pc' = [pc EXCEPT ![p] = "write"]
    /\ UNCHANGED <<activity_items, manager, session_activities, child_performance, learning_paths>>

UpdateCommit(p) ==
    /\ pc[p] = "write"
    /\ child_performance' = WritePerformance(child_performance, call[p])
    /\ pc' = [pc EXCEPT ![p] = "idle"]
    /\ call' = [call EXCEPT ![p] = NoCall]
    /\ UNCHANGED <<activity_items, manager, session_activities, learning_paths>>

(***************************************************************************)
(* PersonalizationEngine.analyze_child_profile(child_id)                   *)
(***************************************************************************)
\* the ChildPerformance rows of a child, each named by <<category, index>>
Performances(perf, c) ==
    UNION {{<<k, i>> : i \in 1..Len(perf[c, k])} : k \in CategoryIds}

PerfRow(perf, c, ref) == perf[c, ref[1]][ref[2]]

\* the SessionActivity rows of a child, over all its sessions
ChildActivities(acts, c) ==
    LET mine == {a \in BagToSet(acts) : a.session.child_id = c}
    IN  [a \in mine |-> acts[a]]

\* perf.overall_score >= 0.7
IsStrength(row) == FracLe(<<7, 10>>, row.overall_score)

\* elif perf.overall_score <= 0.3
IsChallenge(row) == ~IsStrength(row) /\ FracLe(row.overall_score, <<3, 10>>)

\* the lists profile['strengths'] and profile['challenges'] are only ever
\* read through "in", so they are kept as sets
Strengths(perf, c) ==
    {k \in CategoryIds : \E i \in 1..Len(perf[c, k]) : IsStrength(perf[c, k][i])}

Challenges(perf, c) ==
    {k \in CategoryIds : \E i \in 1..Len(perf[c, k]) : IsChallenge(perf[c, k][i])}

\* the modality with ties going to verbal
PreferredModalityTieVerbal(acts) ==
    LET IsV(a)   == a.response_type = "verbal"
        IsVok(a) == a.response_type = "verbal" /\ a.is_correct
        IsN(a)   == a.response_type = "nonverbal"
        IsNok(a) == a.response_type = "nonverbal" /\ a.is_correct
    IN  IF CountWhere(acts, IsV) > 0 /\ CountWhere(acts, IsN) > 0
        THEN IF CountWhere(acts, IsVok) * CountWhere(acts, IsN)
                    >= CountWhere(acts, IsNok) * CountWhere(acts, IsV)
             THEN "verbal" ELSE "nonverbal"
        ELSE "None"

\* lines 62-76
PreferredModality(acts) ==
    LET IsV(a)   == a.response_type = "verbal"
        IsVok(a) == a.response_type = "verbal" /\ a.is_correct
        IsN(a)   == a.response_type = "nonverbal"
        IsNok(a) == a.response_type = "nonverbal" /\ a.is_correct
        verbal_total      == CountWhere(acts, IsV)
        verbal_success    == CountWhere(acts, IsVok)
        selection_total   == CountWhere(acts, IsN)
        selection_success == CountWhere(acts, IsNok)
    IN  IF verbal_total > 0 /\ selection_total > 0
        THEN IF verbal_success * selection_total > selection_success * verbal_total
             THEN "verbal" ELSE "nonverbal"
        ELSE "None"

\* sum([p.overall_score for p in performances]) as a fraction
RECURSIVE ScoreSum(_, _, _)
ScoreSum(perf, c, refs) ==
    IF refs = {} THEN <<0, 1>>
    ELSE LET x    == CHOOSE y \in refs : TRUE
             s    == PerfRow(perf, c, x).overall_score
             rest == ScoreSum(perf, c, refs \ {x})
         IN  <<s[1] * rest[2] + rest[1] * s[2], s[2] * rest[2]>>

\* line 79
AvgScore(perf, c) ==
    LET performances == Performances(perf, c)
        total        == ScoreSum(perf, c, performances)
    IN  IF performances # {}
        THEN <<total[1], total[2] * Cardinality(performances)>>
        ELSE <<0, 1>>

\* the level with the bounds 0.75 and 0.5 included
RecommendedLevelInclusive(avg_score) ==
    IF FracLe(<<3, 4>>, avg_score) THEN "hard"
    ELSE IF FracLe(<<1, 2>>, avg_score) THEN "medium"
    ELSE "easy"

\* lines 80-83
RecommendedLevel(avg_score) ==
    IF FracLt(<<3, 4>>, avg_score) THEN "hard"
    ELSE IF FracLt(<<1, 2>>, avg_score) THEN "medium"
    ELSE "easy"

DefaultProfile ==
    [strengths |-> {}, challenges |-> {},
     recommended_level |-> "easy", preferred_modality |-> "None"]

analyze_child_profile(perf, acts, c) ==
    LET performances == Performances(perf, c)
        activities   == ChildActivities(acts, c)
    IN  IF performances = {} /\ activities = EmptyBag
        THEN DefaultProfile
        ELSE [strengths |-> Strengths(perf, c),
              challenges |-> Challenges(perf, c),
              recommended_level |-> RecommendedLevel(AvgScore(perf, c)),
              preferred_modality |-> PreferredModality(activities)]

(***************************************************************************)
(* Learning-path generation                                                *)
(***************************************************************************)
\* the CASE expression of the ORDER BY
DifficultyRank(level) ==
    CASE level = "easy" -> 1
      [] level = "medium" -> 2
      [] level = "hard" -> 3
      [] OTHER -> 4

\* query(ActivityCategory).order_by(case(...)).all(): the catalog sorted by
\* rank; SQL leaves the order of rows of equal rank open
QueryCategories ==
    LET n == Len(Catalog)
        perms == {f \in [1..n -> 1..n] :
                    /\ \A i, j \in 1..n : i # j => f[i] # f[j]
                    /\ \A i \in 1..(n - 1) :
                          DifficultyRank(Catalog[f[i]].difficulty_level)
                              <= DifficultyRank(Catalog[f[i + 1]].difficulty_level)}
    IN  {[i \in 1..n |-> Catalog[f[i]]] : f \in perms}

StrengthTarget == 9
NewAtLevelTarget == 7
ChallengeTarget == 5

\* the three loops shared by both generators: strengths, then categories at
\* the recommended level, then challenges
PathGroups(profile, categories) ==
    LET InStrengths(cat) == cat.id \in profile.strengths
        NewAtLevel(cat)  == /\ cat.id \notin (profile.strengths \cup profile.challenges)
                            /\ cat.difficulty_level = profile.recommended_level
        InChallenges(cat) == cat.id \in profile.challenges
    IN  << SelectSeq(categories, InStrengths),
           SelectSeq(categories, NewAtLevel),
           SelectSeq(categories, InChallenges) >>

\* api/children.py: items carry priority and status
generate_learning_path_items(profile, categories) ==
    LET g == PathGroups(profile, categories)
        s == [i \in 1..Len(g[1]) |->
                [category_id |-> g[1][i].id, reason |-> "strength",
                 target_score |-> StrengthTarget]]
        n == [i \in 1..Len(g[2]) |->
                [category_id |-> g[2][i].id, reason |-> "new_at_level",
                 target_score |-> NewAtLevelTarget]]
        c == [i \in 1..Len(g[3]) |->
                [category_id |-> g[3][i].id, reason |-> "challenge",
                 target_score |-> ChallengeTarget]]
        all == s \o n \o c
    IN  [i \in 1..Len(all) |->
            [category_id |-> all[i].category_id, reason |-> all[i].reason,
             target_score |-> all[i].target_score,
             priority |-> i, status |-> "pending"]]

\* services/personalization.py: items carry neither priority nor status
generate_learning_path(profile, categories) ==
    LET g == PathGroups(profile, categories)
        s == [i \in 1..Len(g[1]) |->
                [category_id |-> g[1][i].id, reason |-> "strength",
                 target_score |-> StrengthTarget]]
        n == [i \in 1..Len(g[2]) |->
                [category_id |-> g[2][i].id, reason |-> "new_at_level",
                 target_score |-> NewAtLevelTarget]]
        c == [i \in 1..Len(g[3]) |->
                [category_id |-> g[3][i].id, reason |-> "challenge",
                 target_score |-> ChallengeTarget,
                 support |-> IF profile.preferred_modality = "select"
                             THEN "visual_aids" ELSE "verbal_prompts"]]
    IN  s \o n \o c

(***************************************************************************)
(* Learning-path retrieval, update and persistence                         *)
(***************************************************************************)
\* item.get(key, default)
DictGet(item, key, default) ==
    IF key \in DOMAIN item THEN item[key] ELSE default

\* order_by(LearningPath.current_priority): the rows sorted by priority; SQL
\* leaves the order of rows of equal priority open
ReadOrders(rows) ==
    LET n == Len(rows)
    IN  {f \in [1..n -> 1..n] :
            /\ \A i, j \in 1..n : i # j => f[i] # f[j]
            /\ \A i \in 1..(n - 1) :
                  rows[f[i]].current_priority <= rows[f[i + 1]].current_priority}

\* which row of each category a query without ORDER BY meets first
FirstRows(perf, c) ==
    LET several == {k \in CategoryIds : Len(perf[c, k]) > 1}
        choices == {g \in [several -> 1..Cardinality(Procs)] :
                        \A k \in several : g[k] \in FirstPerformance(perf, c, k)}
    IN  {[k \in CategoryIds |-> IF k \in several THEN g[k] ELSE Len(perf[c, k])] :
            g \in choices}

CurrentScore(perf, c, k, first) ==
    IF first[k] = NoRow THEN <<0, 1>> ELSE perf[c, k][first[k]].overall_score

\* a list when the path is generated on the fly, a dict when rows exist
get_current_learning_path(paths, perf, acts, c, categories, order, first) ==
    IF paths[c] = << >>
    THEN [kind |-> "list",
          items |-> generate_learning_path(analyze_child_profile(perf, acts, c), categories)]
    ELSE [kind |-> "dict",
          child_id |-> c,
          paths |-> [i \in 1..Len(paths[c]) |->
                      LET item == paths[c][order[i]] IN
                      [category_id |-> item.category_id,
                       target_score |-> item.target_score,
                       current_priority |-> item.current_priority,
                       status |-> item.status,
                       current_score |-> CurrentScore(perf, c, item.category_id, first)]]]

\* lines 362-365, target in tenths: a score above 90% of the target raises it
\* by 0.1 up to 1.0, a score below 50% lowers it by 0.1 down to 0.3
AdjustTarget(target, score) ==
    IF 100 * score[1] > 9 * target * score[2] THEN Min(10, target + 1)
    ELSE IF 20 * score[1] < target * score[2] THEN Max(3, target - 1)
    ELSE target

\* lines 358-365 over a generated list; nxt[k] is the row next(...) finds
AdjustItems(items, perf, c, nxt) ==
    [i \in 1..Len(items) |->
        LET k == items[i].category_id IN
        IF nxt[k] = NoRow THEN items[i]
        ELSE [items[i] EXCEPT
                !.target_score = AdjustTarget(@, perf[c, k][nxt[k]].overall_score)]]

\* a save that adds the new rows without deleting the child's old ones
save_learning_path_keeping(paths, c, path_data) ==
    LET items == IF path_data.kind = "dict" THEN path_data.paths ELSE path_data.items
    IN  [paths EXCEPT ![c] = @ \o
            [i \in 1..Len(items) |->
                [category_id |-> items[i].category_id,
                 target_score |-> items[i].target_score,
                 current_priority |-> DictGet(items[i], "priority", 0),
                 status |-> DictGet(items[i], "status", "pending")]]]

\* delete the child's rows, then add one row per item, then commit
save_learning_path(paths, c, path_data) ==
    LET items == IF path_data.kind = "dict" THEN path_data.paths ELSE path_data.items
    IN  [paths EXCEPT ![c] =
            [i \in 1..Len(items) |->
                [category_id |-> items[i].category_id,
                 target_score |-> items[i].target_score,
                 current_priority |-> DictGet(items[i], "priority", 0),
                 status |-> DictGet(items[i], "status", "pending")]]]

\* "for item in current_path" over a dict walks its keys; item['category_id']
\* on a key raises TypeError as soon as the generator of next(...) meets a
\* performance row
UpdateRaises(current_path, perf, c) ==
    current_path.kind = "dict" /\ Performances(perf, c) # {}

UpdatedPath(current_path, perf, c, nxt) ==
    IF current_path.kind = "list"
    THEN [current_path EXCEPT !.items = AdjustItems(@, perf, c, nxt)]
    ELSE current_path

\* the learning_paths table after update_learning_path(c): as it was when the
\* call raises before save, otherwise with the adjusted path saved
UpdateLearningPathResult(paths, perf, acts, c, categories, order, first, nxt) ==
    LET current_path ==
            get_current_learning_path(paths, perf, acts, c, categories, order, first)
    IN  IF UpdateRaises(current_path, perf, c)
        THEN paths
        ELSE save_learning_path(paths, c, UpdatedPath(current_path, perf, c, nxt))

update_learning_path(c) ==
    \E categories \in QueryCategories,
       order \in ReadOrders(learning_paths[c]),
       first \in FirstRows(child_performance, c),
       nxt \in FirstRows(child_performance, c) :
        /\ learning_paths' =
              UpdateLearningPathResult(learning_paths, child_performance,
                  session_activities, c, categories, order, first, nxt)
        /\ UNCHANGED <<activity_items, manager, session_activities, child_performance, pc, call>>

(***************************************************************************)
(* select_next_activity(session)                                           *)
(***************************************************************************)
CategoryLevel(k) ==
    LET j == CHOOSE i \in 1..Len(Catalog) : Catalog[i].id = k
    IN  Catalog[j].difficulty_level

\* the ActivityItem rows of a category, in the order the query returns them
ItemsOf(items, k) ==
    LET InCategory(it) == it.category_id = k
    IN  SelectSeq(items, InCategory)

\* the item ids attempted in any session of the child
RecentIdsAnySession(acts, s) ==
    {a.item_id : a \in {x \in BagToSet(acts) : x.session.child_id = s.child_id}}

\* the item ids attempted in the session
RecentIds(acts, s) ==
    {a.item_id : a \in {x \in BagToSet(acts) : x.session = s}}

\* Python orders the strings 'easy' < 'hard' < 'medium'
StrRank(level) ==
    CASE level = "easy" -> 1
      [] level = "hard" -> 2
      [] level = "medium" -> 3

Returned(item) == [kind |-> "item", item |-> item]
ReturnedNone == [kind |-> "none"]
RaisedTypeError == [kind |-> "raises"]

\* line 180: sorted(items, key=x.difficulty_level or category level)[0].
\* With two or more items every key takes part in a comparison, and a
\* comparison with None raises TypeError; sorted is stable.
EasiestFirst(items, level) ==
    LET key(i) == IF items[i].difficulty_level # "None"
                  THEN items[i].difficulty_level ELSE level
    IN  IF Len(items) = 1 THEN Returned(items[1])
        ELSE IF \E i \in 1..Len(items) : key(i) = "None" THEN RaisedTypeError
        ELSE LET best == CHOOSE i \in 1..Len(items) :
                            \A j \in 1..Len(items) :
                                \/ StrRank(key(i)) < StrRank(key(j))
                                \/ StrRank(key(i)) = StrRank(key(j)) /\ i <= j
             IN  Returned(items[best])

\* lines 183-207: the band of the score
Band(score) ==
    IF FracLt(score, <<4, 10>>) THEN "easy"
    ELSE IF FracLt(<<8, 10>>, score) THEN "hard"
    ELSE "medium"

InBand(item, level, band) ==
    \/ item.difficulty_level = band
    \/ item.difficulty_level = "None" /\ level = band

BandItems(items, level, band) ==
    LET Keep(it) == InBand(it, level, band)
    IN  SelectSeq(items, Keep)

\* items[:3], items[-3:], items[3:-3] if len(items) > 6 else items
Fallback(items, band) ==
    CASE band = "easy" -> SubSeq(items, 1, Min(3, Len(items)))
      [] band = "hard" -> SubSeq(items, Max(1, Len(items) - 2), Len(items))
      [] band = "medium" ->
            IF Len(items) > 6 THEN SubSeq(items, 4, Len(items) - 3) ELSE items

\* the candidates without the difficulty filter
CandidatesUnfiltered(items, level, band) == items

Candidates(items, level, band) ==
    IF BandItems(items, level, band) # << >>
    THEN BandItems(items, level, band)
    ELSE Fallback(items, band)

\* lines 209-216: drop the items attempted in the session unless none is left
AvoidRecent(candidates, recent_ids) ==
    LET Fresh(it) == it.id \notin recent_ids
    IN  IF SelectSeq(candidates, Fresh) # << >>
        THEN SelectSeq(candidates, Fresh)
        ELSE candidates

\* the sort key (x.audio_url is not None, x.difficulty_level) or the same
\* with image_url
SortKey(item, modality) ==
    [asset |-> IF modality = "verbal" THEN item.audio_url ELSE item.image_url,
     level |-> item.difficulty_level]

\* tuple comparison x < y: the first differing component decides; False < True;
\* None against a string raises TypeError
KeyRaises(x, y) ==
    /\ x.asset = y.asset
    /\ x.level # y.level
    /\ "None" \in {x.level, y.level}

KeyLt(x, y) ==
    IF x.asset # y.asset THEN ~x.asset
    ELSE IF x.level = y.level THEN FALSE
    ELSE StrRank(x.level) < StrRank(y.level)

\* list.sort on fewer than 64 elements: the initial run, then binary
\* insertion.  keys[n] is the last element of the run found so far.
RECURSIVE RunEnd(_, _, _)
RunEnd(keys, descending, n) ==
    IF n >= Len(keys) THEN [n |-> n, raised |-> FALSE]
    ELSE IF KeyRaises(keys[n + 1], keys[n]) THEN [n |-> n, raised |-> TRUE]
    ELSE IF KeyLt(keys[n + 1], keys[n]) = descending
         THEN RunEnd(keys, descending, n + 1)
         ELSE [n |-> n, raised |-> FALSE]

Reverse(seq) == [i \in 1..Len(seq) |-> seq[Len(seq) + 1 - i]]

\* position of pivot within the sorted prefix, 0 when a comparison raises
RECURSIVE InsertAt(_, _, _, _)
InsertAt(keys, pivot, l, r) ==
    IF l >= r THEN l
    ELSE LET p == l + ((r - l) \div 2) IN
         IF KeyRaises(pivot, keys[p]) THEN 0
         ELSE IF KeyLt(pivot, keys[p]) THEN InsertAt(keys, pivot, l, p)
         ELSE InsertAt(keys, pivot, p + 1, r)

\* order is the permutation so far, its first start - 1 entries sorted
RECURSIVE BinarySort(_, _, _)
BinarySort(all_keys, order, start) ==
    IF start > Len(order) THEN [raised |-> FALSE, order |-> order]
    ELSE LET sorted == [i \in 1..(start - 1) |-> all_keys[order[i]]]
             at     == InsertAt(sorted, all_keys[order[start]], 1, start)
         IN  IF at = 0 THEN [raised |-> TRUE, order |-> order]
             ELSE BinarySort(all_keys,
                     SubSeq(order, 1, at - 1) \o <<order[start]>>
                         \o SubSeq(order, at, start - 1)
                         \o SubSeq(order, start + 1, Len(order)),
                     start + 1)

\* candidates.sort(key=...): the sorted list, or raised
ListSort(candidates, modality) ==
    LET keys == [i \in 1..Len(candidates) |-> SortKey(candidates[i], modality)]
        ident == [i \in 1..Len(candidates) |-> i]
    IN  IF Len(candidates) < 2 THEN [raised |-> FALSE, list |-> candidates]
        ELSE IF KeyRaises(keys[2], keys[1]) THEN [raised |-> TRUE, list |-> candidates]
        ELSE LET descending == KeyLt(keys[2], keys[1])
                 run   == RunEnd(keys, descending, 2)
                 first == IF descending
                          THEN Reverse(SubSeq(ident, 1, run.n))
                                  \o SubSeq(ident, run.n + 1, Len(ident))
                          ELSE ident
                 done  == BinarySort(keys, first, run.n + 1)
             IN  IF run.raised \/ done.raised
                 THEN [raised |-> TRUE, list |-> candidates]
                 ELSE [raised |-> FALSE,
                       list |-> [i \in 1..Len(candidates) |-> candidates[done.order[i]]]]

\* what select_next_activity(session) returns; first is the row .first() meets
SelectNextActivity(perf, acts, all_items, s, first) ==
    LET items == ItemsOf(all_items, s.category_id)
        level == CategoryLevel(s.category_id)
        score == perf[s.child_id, s.category_id][first].overall_score
        candidates ==
            AvoidRecent(Candidates(items, level, Band(score)), RecentIds(acts, s))
        modality == analyze_child_profile(perf, acts, s.child_id).preferred_modality
    IN  IF items = << >> THEN ReturnedNone
        ELSE IF first = NoRow THEN EasiestFirst(items, level)
        ELSE IF FracLt(score, <<1, 10>>) THEN EasiestFirst(items, level)
        ELSE IF modality = "None" THEN Returned(candidates[1])
        ELSE IF ListSort(candidates, modality).raised THEN RaisedTypeError
        ELSE Returned(ListSort(candidates, modality).list[1])

\* one request at a time; the result is kept as the request's local
select_next_activity(p, s) ==
    /\ \A q \in Procs : pc[q] = "idle" /\ call[q] = NoCall
    /\ \E first \in FirstPerformance(child_performance, s.child_id, s.category_id) :
          call' = [call EXCEPT ![p] =
                      [session |-> s,
                       result |-> SelectNextActivity(child_performance,
                                      session_activities, activity_items, s, first)]]
    /\ UNCHANGED <<activity_items, manager, session_activities, child_performance,
                   learning_paths, pc>>

(***************************************************************************)
(* Phonetic similarity engine (pronunciation_analysis.py).  A text is a    *)
(* sequence of one-character strings.  Characters outside ASCII are        *)
(* written by code point ("U+0279").                                       *)
(***************************************************************************)
LowerLetters ==
    {"a", "b", "c", "d", "e", "f", "g", "h", "i", "j", "k", "l", "m",
     "n", "o", "p", "q", "r", "s", "t", "u", "v", "w", "x", "y", "z"}

UpperToLower ==
    [A |-> "a", B |-> "b", C |-> "c", D |-> "d", E |-> "e", F |-> "f",
     G |-> "g", H |-> "h", I |-> "i", J |-> "j", K |-> "k", L |-> "l",
     M |-> "m", N |-> "n", O |-> "o", P |-> "p", Q |-> "q", R |-> "r",
     S |-> "s", T |-> "t", U |-> "u", V |-> "v", W |-> "w", X |-> "x",
     Y |-> "y", Z |-> "z"]

\* str.lower()
Lower(text) ==
    [i \in 1..Len(text) |->
        IF text[i] \in DOMAIN UpperToLower THEN UpperToLower[text[i]] ELSE text[i]]

\* re.sub(r'[^a-z ]', '', text) with keep = " ", re.sub(r'[^a-z]', '', text)
\* with keep = ""
RECURSIVE KeepLetters(_, _)
KeepLetters(text, keep) ==
    IF text = << >> THEN << >>
    ELSE (IF Head(text) \in LowerLetters \/ Head(text) = keep
          THEN <<Head(text)>> ELSE << >>) \o KeepLetters(Tail(text), keep)

\* \w and [- ] of the two patterns
WordChar(ch) == ch \in LowerLetters \/ ch \in DOMAIN UpperToLower
Separator(ch) == ch \in {"-", " "}

\* the first position from i on that holds no separator
RECURSIVE SkipSeparators(_, _)
SkipSeparators(text, i) ==
    IF i <= Len(text) /\ Separator(text[i]) THEN SkipSeparators(text, i + 1) ELSE i

\* the last position of the run of word characters that starts at i
RECURSIVE WordEnd(_, _)
WordEnd(text, i) ==
    IF i < Len(text) /\ WordChar(text[i + 1]) THEN WordEnd(text, i + 1) ELSE i

\* where a match of \b(\w)[- ]+\1 that starts at i ends, 0 when there is none
StutterEnd(text, i) ==
    IF /\ WordChar(text[i])
       /\ (i = 1 \/ ~WordChar(text[i - 1]))
       /\ i < Len(text)
       /\ Separator(text[i + 1])
    THEN LET j == SkipSeparators(text, i + 1)
         IN  IF j <= Len(text) /\ text[j] = text[i] THEN j ELSE 0
    ELSE 0

\* re.sub(r'\b(\w)[- ]+\1', r'\1', text) from position i on
RECURSIVE SubStutter(_, _)
SubStutter(text, i) ==
    IF i > Len(text) THEN << >>
    ELSE LET e == StutterEnd(text, i)
         IN  <<text[i]>> \o SubStutter(text, IF e > 0 THEN e + 1 ELSE i + 1)

\* where a match of (\w+)[ -]+\1 that starts at i ends, 0 when there is none
RepeatEnd(text, i) ==
    IF ~WordChar(text[i]) THEN 0
    ELSE LET m == WordEnd(text, i)
             n == m - i + 1
         IN  IF m < Len(text) /\ Separator(text[m + 1])
             THEN LET j == SkipSeparators(text, m + 1)
                  IN  IF /\ j + n - 1 <= Len(text)
                         /\ SubSeq(text, j, j + n - 1) = SubSeq(text, i, m)
                      THEN j + n - 1 ELSE 0
             ELSE 0

\* re.sub(r'(\w+)[ -]+\1', r'\1', text) from position i on
RECURSIVE SubRepeat(_, _)
SubRepeat(text, i) ==
    IF i > Len(text) THEN << >>
    ELSE LET e == RepeatEnd(text, i)
         IN  IF e > 0
             THEN SubSeq(text, i, WordEnd(text, i)) \o SubRepeat(text, e + 1)
             ELSE <<text[i]>> \o SubRepeat(text, i + 1)

\* str.split(): the words between runs of whitespace
RECURSIVE Split(_, _, _)
Split(text, word, words) ==
    IF text = << >> THEN (IF word = << >> THEN words ELSE Append(words, word))
    ELSE IF Head(text) = " "
         THEN Split(Tail(text), << >>,
                    IF word = << >> THEN words ELSE Append(words, word))
         ELSE Split(Tail(text), Append(word, Head(text)), words)

\* lines 23-40
normalize_disfluencies(text) ==
    LET cleaned == KeepLetters(Lower(text), " ")
        words == Split(SubRepeat(SubStutter(cleaned, 1), 1), << >>, << >>)
    IN  IF words = << >> THEN << >> ELSE words[Len(words)]

\* any transcript with a word counts as a repetition
is_echolalic_single(actual) ==
    LET words == Split(Lower(actual), << >>, << >>)
    IN  Len(words) >= 1 /\ \A i \in 1..Len(words) : words[i] = words[1]

\* lines 43-46
is_echolalic(actual) ==
    LET words == Split(Lower(actual), << >>, << >>)
    IN  Len(words) > 1 /\ \A i \in 1..Len(words) : words[i] = words[1]

\* lines 7-18, in list order
PHONEME_GROUPS ==
    << {<<"r">>, <<"l">>, <<"w">>, <<"U+0279">>, <<"U+028B">>},
       {<<"s">>, <<"s", "h">>, <<"z">>, <<"t", "h">>, <<"f">>, <<"U+03B8">>, <<"U+00F0">>},
       {<<"t">>, <<"d">>, <<"U+0294">>, <<"U+027E">>},
       {<<"k">>, <<"g">>, <<"q">>},
       {<<"m">>, <<"n">>, <<"U+014B">>},
       {<<"p">>, <<"b">>, <<"U+03B2">>},
       {<<"c", "h">>, <<"s", "h">>, <<"j">>, <<"z", "h">>},
       {<<"a", "h">>, <<"a">>, <<"U+00E6">>, <<"U+0259">>},
       {<<"o", "h">>, <<"o">>, <<"U+0254">>, <<"o", "w">>},
       {<<"e", "e">>, <<"i">>, <<"U+026A">>, <<"i", "y">>} >>

\* lines 49-58
get_phonetic_variants(word) ==
    UNION {{SubSeq(word, 1, i - 1) \o sound \o SubSeq(word, i + 1, Len(word)) :
               sound \in PHONEME_GROUPS[g]} :
           <<i, g>> \in {x \in (1..Len(word)) \X (1..Len(PHONEME_GROUPS)) :
                            <<word[x[1]]>> \in PHONEME_GROUPS[x[2]]}}

\* one more row of the edit-distance table, for the character ch of a
RECURSIVE LevRow(_, _, _, _)
LevRow(prev, ch, b, row) ==
    IF Len(row) = Len(b) + 1 THEN row
    ELSE LET j == Len(row)
             cost == IF ch = b[j] THEN 0 ELSE 1
         IN  LevRow(prev, ch, b,
                    Append(row, Min(Min(prev[j + 1] + 1, row[j] + 1), prev[j] + cost)))

RECURSIVE LevRows(_, _, _, _)
LevRows(a, b, i, prev) ==
    IF i > Len(a) THEN prev[Len(b) + 1]
    ELSE LevRows(a, b, i + 1, LevRow(prev, a[i], b, <<prev[1] + 1>>))

\* Levenshtein.distance: insertions, deletions and substitutions of cost 1
levenshtein_distance(a, b) == LevRows(a, b, 1, [j \in 1..(Len(b) + 1) |-> j - 1])

\* doublemetaphone is a library whose code is not part of the repository:
\* lines 71-80 are a choice between a match of the primary codes, a match of
\* the secondary codes and no match.  A match needs a non-empty code of
\* expected (the guards of lines 75 and 79) equal to the code of actual, and
\* a word without letters has empty codes.
MetaphoneOutcomes(expected, actual) ==
    IF expected = << >> \/ actual = << >> THEN {"none"}
    ELSE {"primary", "secondary", "none"}

\* scores are fractions <<num, den>>
Scored(similarity) == [kind |-> "score", similarity |-> similarity]
RaisedIndexError == [kind |-> "raises"]

\* base_score + boost without the cap of line 96
BoostUncapped(base_score, boost) ==
    <<base_score[1] * 100 + boost * base_score[2], base_score[2] * 100>>

\* line 96: min(1.0, base_score + boost), boost in hundredths
Boost(base_score, boost) ==
    LET sum == <<base_score[1] * 100 + boost * base_score[2], base_score[2] * 100>>
    IN  IF FracLt(<<1, 1>>, sum) THEN <<1, 1>> ELSE sum

\* lines 82-98
LengthAdjusted(expected, actual) ==
    LET lev_dist == levenshtein_distance(expected, actual)
        max_len == Max(Max(Len(expected), Len(actual)), 1)
        base_score == <<max_len - lev_dist, max_len>>
        diff == Len(expected) - Len(actual)
        s1 == IF diff <= 2 /\ -diff <= 2 THEN Boost(base_score, 20) ELSE base_score
    IN  IF expected = << >> \/ actual = << >> THEN RaisedIndexError
        ELSE LET s2 == IF expected[1] = actual[1] THEN Boost(s1, 15) ELSE s1
                 s3 == IF expected[Len(expected)] = actual[Len(actual)]
                       THEN Boost(s2, 10) ELSE s2
             IN  Scored(s3)

\* lines 61-98; meta is the outcome of the metaphone comparison
calculate_asd_similarity(expected, actual, meta) ==
    IF actual \in get_phonetic_variants(expected) \cup {expected} THEN Scored(<<1, 1>>)
    ELSE IF meta = "primary" THEN Scored(<<9, 10>>)
    ELSE IF meta = "secondary" THEN Scored(<<8, 10>>)
    ELSE LengthAdjusted(expected, actual)

\* the first group of the table that holds the character, or the character
SoundGroup(ch) ==
    LET holding == {g \in 1..Len(PHONEME_GROUPS) : <<ch>> \in PHONEME_GROUPS[g]}
    IN  IF holding = {} THEN {<<ch>>}
        ELSE PHONEME_GROUPS[CHOOSE g \in holding : \A h \in holding : g <= h]

\* lines 143-155
get_most_different_sound(expected, actual) ==
    LET n == Min(Len(expected), Len(actual))
        differing == {i \in 1..n : /\ expected[i] # actual[i]
                                   /\ SoundGroup(expected[i]) \cap SoundGroup(actual[i]) = {}}
    IN  IF differing = {} THEN SubSeq(expected, 1, Min(2, Len(expected)))
        ELSE LET i == CHOOSE i \in differing : \A j \in differing : i <= j
             IN  <<actual[i], "->", expected[i]>>

\* re.sub(r'[^a-z]', '', expected.lower()), line 104
CleanExpected(expected) == KeepLetters(Lower(expected), "")

\* lines 101-140; special_case None is "None"
analyze_pronunciation(expected, actual, meta) ==
    LET expected_clean == CleanExpected(expected)
        actual_clean == normalize_disfluencies(actual)
        score == calculate_asd_similarity(expected_clean, actual_clean, meta)
    IN  IF is_echolalic(actual)
        THEN [kind |-> "result", is_correct |-> TRUE, similarity_score |-> <<95, 100>>,
              feedback |-> <<"repeating">>, special_case |-> "echolalia"]
        ELSE IF score.kind = "raises" THEN [kind |-> "raises"]
        ELSE LET similarity == score.similarity
                 is_correct == FracLe(<<7, 10>>, similarity)
                 diff == get_most_different_sound(expected_clean, actual_clean)
             IN  [kind |-> "result",
                  is_correct |-> is_correct,
                  similarity_score |-> similarity,
                  feedback |-> IF is_correct /\ FracLe(<<9, 10>>, similarity)
                               THEN <<"perfect">>
                               ELSE IF is_correct THEN <<"close", diff>>
                               ELSE <<"practice", expected, diff>>,
                  special_case |-> IF is_echolalic(actual) THEN "echolalia" ELSE "None"]

\* POST /sessions/{id}/process-audio for the pending request of p: the item's
\* name and the transcription are analysed and the attempt is stored; an
\* exception of the analysis is answered with status 500 and stores nothing.
process_audio_transcription(p, s) ==
    /\ "transcription" \in DOMAIN call[p]
    /\ "analysis" \notin DOMAIN call[p]
    /\ \E meta \in MetaphoneOutcomes(CleanExpected(call[p].expected),
                                     normalize_disfluencies(call[p].transcription)) :
          LET analysis == analyze_pronunciation(call[p].expected,
                                                call[p].transcription, meta)
          IN  /\ call' = [call EXCEPT ![p] = [expected |-> call[p].expected,
                                              transcription |-> call[p].transcription,
                                              analysis |-> analysis]]
              /\ IF analysis.kind = "result"
                 THEN AddActivity([session |-> s, response_type |-> "verbal",
                                   is_correct |-> analysis.is_correct])
                 ELSE UNCHANGED session_activities
    /\ UNCHANGED <<activity_items, manager, child_performance, learning_paths, pc>>

(***************************************************************************)
(* Specifications                                                          *)
(***************************************************************************)
\* requests handled one after the other
Next ==
    \/ \E s \in Sessions, t \in ResponseTypes, b \in BOOLEAN : record_response(s, t, b)
    \/ \E s \in Sessions, b \in BOOLEAN : process_audio_response(s, b)
    \/ \E s \in Sessions : update_performance_metrics(s.child_id, s.category_id)
    \/ \E c \in Children : update_learning_path(c)

Spec == Init /\ [][Next]_vars

\* two requests aggregating the same (child, category) at the same time
NextRace ==
    \/ \E s \in RaceSessions, t \in ResponseTypes, b \in BOOLEAN : record_response(s, t, b)
    \/ \E s \in RaceSessions, b \in BOOLEAN : process_audio_response(s, b)
    \/ \E p \in Procs, s \in RaceSessions :
          UpdateQueryActivities(p, s.child_id, s.category_id)
    \/ \E p \in Procs : UpdateLookup(p)
    \/ \E p \in Procs : UpdateCommit(p)

SpecRace == Init /\ [][NextRace]_vars

(***************************************************************************)
(* The path update over long attempt histories: the child has answered     *)
(* up to MaxVerbal verbal and MaxSelection selection items of one          *)
(* category before its metrics and its path are updated.                   *)
(***************************************************************************)
MaxVerbal == 13
MaxSelection == 3

PathSessions == {[child_id |-> "c1", category_id |-> "k2"]}

\* n rows equal to a
Copies(a, n) == IF n = 0 THEN EmptyBag ELSE [x \in {a} |-> n]

\* the rows left by va verbal answers (vs correct) and sa selections (ss correct)
History(s, va, vs, sa, ss) ==
    Copies([session |-> s, response_type |-> "verbal", is_correct |-> TRUE], vs)
    (+) Copies([session |-> s, response_type |-> "verbal", is_correct |-> FALSE], va - vs)
    (+) Copies([session |-> s, response_type |-> "select", is_correct |-> TRUE], ss)
    (+) Copies([session |-> s, response_type |-> "select", is_correct |-> FALSE], sa - ss)

InitPath ==
    /\ \E s \in PathSessions, va \in 0..MaxVerbal, sa \in 0..MaxSelection :
          \E vs \in 0..va, ss \in 0..sa :
              session_activities = History(s, va, vs, sa, ss)
    /\ child_performance = [c \in Children, k \in CategoryIds |-> << >>]
    /\ learning_paths = [c \in Children |-> << >>]
    /\ pc = [p \in Procs |-> "idle"]
    /\ call = [p \in Procs |-> NoCall]
    /\ activity_items = ItemCatalog
    /\ NewManager

NextPath ==
    \/ \E s \in PathSessions : update_performance_metrics(s.child_id, s.category_id)
    \/ \E c \in Children : update_learning_path(c)

SpecPath == InitPath /\ [][NextPath]_vars

(***************************************************************************)
(* save_learning_path step by step inside its database transaction: the    *)
(* DELETE, the added rows and the commit.  Other requests read committed   *)
(* rows only (read committed).                                             *)
(***************************************************************************)
\* the rows of child c a SELECT of another transaction returns
ReadCommitted(paths, c) ==
    {[i \in 1..Len(paths[c]) |-> paths[c][order[i]]] : order \in ReadOrders(paths[c])}

\* a DELETE that is committed on its own
SaveDeleteAutocommit(p, c) ==
    /\ \A q \in Procs : pc[q] = "idle"
    /\ \E categories \in QueryCategories,
          order \in ReadOrders(learning_paths[c]),
          first \in FirstRows(child_performance, c),
          nxt \in FirstRows(child_performance, c) :
          LET current_path ==
                  get_current_learning_path(learning_paths, child_performance,
                      session_activities, c, categories, order, first)
          IN  /\ ~UpdateRaises(current_path, child_performance, c)
              /\ call' = [call EXCEPT ![p] =
                            [child_id |-> c,
                             path_data |-> UpdatedPath(current_path, child_performance, c, nxt),
                             deleted |-> learning_paths[c]]]
    /\ pc' = [pc EXCEPT ![p] = "deleted"]
    /\ learning_paths' = [learning_paths EXCEPT ![c] = << >>]
    /\ UNCHANGED <<activity_items, manager, session_activities, child_performance>>

\* update_learning_path up to the DELETE of save_learning_path (lines
\* 350-411): the rows are deleted in the transaction of the request
SaveDelete(p, c) ==
    /\ \A q \in Procs : pc[q] = "idle"
    /\ \E categories \in QueryCategories,
          order \in ReadOrders(learning_paths[c]),
          first \in FirstRows(child_performance, c),
          nxt \in FirstRows(child_performance, c) :
          LET current_path ==
                  get_current_learning_path(learning_paths, child_performance,
                      session_activities, c, categories, order, first)
          IN  /\ ~UpdateRaises(current_path, child_performance, c)
              /\ call' = [call EXCEPT ![p] =
                            [child_id |-> c,
                             path_data |-> UpdatedPath(current_path, child_performance, c, nxt),
                             deleted |-> learning_paths[c]]]
    /\ pc' = [pc EXCEPT ![p] = "deleted"]
    /\ UNCHANGED <<activity_items, manager, session_activities, child_performance, learning_paths>>

\* lines 414-419: a dict with a 'paths' key, or a list
ValidPathData(path_data) ==
    \/ path_data.kind = "dict" /\ "paths" \in DOMAIN path_data
    \/ path_data.kind = "list"

\* lines 413-432: the new rows are added to the session
SaveAdd(p) ==
    /\ pc[p] = "deleted"
    /\ ValidPathData(call[p].path_data)
    /\ pc' = [pc EXCEPT ![p] = "added"]
    /\ UNCHANGED <<activity_items, manager, session_activities, child_performance, learning_paths, call>>

\* line 434: commit
SaveCommit(p) ==
    /\ pc[p] = "added"
    /\ learning_paths' =
          save_learning_path(learning_paths, call[p].child_id, call[p].path_data)
    /\ pc' = [pc EXCEPT ![p] = "idle"]
    /\ call' = [call EXCEPT ![p] = NoCall]
    /\ UNCHANGED <<activity_items, manager, session_activities, child_performance>>

NextPersist ==
    \/ \E s \in RaceSessions, b \in BOOLEAN : process_audio_response(s, b)
    \/ \E s \in RaceSessions : update_performance_metrics(s.child_id, s.category_id)
    \/ \E p \in Procs, c \in Children : SaveDelete(p, c)
    \/ \E p \in Procs : SaveAdd(p)
    \/ \E p \in Procs : SaveCommit(p)

SpecPersist == Init /\ [][NextPersist]_vars

(***************************************************************************)
(* Item selection: a child with an earlier and a current session in one    *)
(* category.  The category holds any sub-list of ItemCatalog.  The earlier *)
(* session left one of OlderHistories; the current session has up to       *)
(* MaxSessionAttempts attempts when the category holds SessionItems only   *)
(* and none yet otherwise.                                                 *)
(***************************************************************************)
MaxSessionAttempts == 2

SessionItems == {"i1", "i2", "i3"}

SelectCategories == {"k2", "k3", "k4"}

OlderSession(k) == [id |-> "s1", child_id |-> "c1", category_id |-> k]
CurrentSession(k) == [id |-> "s2", child_id |-> "c1", category_id |-> k]

SelectSessions == {CurrentSession(k) : k \in SelectCategories}

\* what the earlier session recorded: nothing, or answers that score 0.0,
\* 1.0, 0.3 and 0.7
OlderHistories ==
    { << >>,
      << [response_type |-> "verbal", is_correct |-> FALSE] >>,
      << [response_type |-> "verbal", is_correct |-> TRUE] >>,
      << [response_type |-> "verbal", is_correct |-> FALSE],
         [response_type |-> "select", is_correct |-> TRUE] >>,
      << [response_type |-> "verbal", is_correct |-> TRUE],
         [response_type |-> "select", is_correct |-> FALSE] >> }

\* the catalog rows with index in sub, filed under category k
SubCatalog(sub, k) ==
    LET tagged == [i \in 1..Len(ItemCatalog) |->
                      [index |-> i, row |-> [ItemCatalog[i] EXCEPT !.category_id = k]]]
        Kept(t) == t.index \in sub
        kept == SelectSeq(tagged, Kept)
    IN  [i \in 1..Len(kept) |-> kept[i].row]

RECURSIVE BagOfSeq(_)
BagOfSeq(seq) ==
    IF seq = << >> THEN EmptyBag
    ELSE SetToBag({Head(seq)}) (+) BagOfSeq(Tail(seq))

\* the SessionActivity rows of a session for a sequence of answers
SessionRows(s, answers) ==
    BagOfSeq([i \in 1..Len(answers) |->
                [session |-> s,
                 item_id |-> answers[i].item_id,
                 response_type |-> answers[i].response_type,
                 is_correct |-> answers[i].is_correct]])

Answers(items) ==
    LET ids == {items[i].id : i \in 1..Len(items)}
        one == [item_id : ids, response_type : {"verbal", "nonverbal"},
                is_correct : BOOLEAN]
    IN  IF ids \subseteq SessionItems
        THEN UNION {[1..n -> one] : n \in 0..MaxSessionAttempts}
        ELSE {<< >>}

InitSelect ==
    /\ \E k \in SelectCategories, sub \in SUBSET (1..Len(ItemCatalog)) :
          \E older \in OlderHistories, answers \in Answers(SubCatalog(sub, k)) :
              /\ sub = {} => older = << >>
              /\ activity_items = SubCatalog(sub, k)
              /\ NewManager
              /\ session_activities =
                    SessionRows(OlderSession(k),
                        [i \in 1..Len(older) |->
                            [item_id |-> SubCatalog(sub, k)[1].id,
                             response_type |-> older[i].response_type,
                             is_correct |-> older[i].is_correct]])
                    (+) SessionRows(CurrentSession(k), answers)
    /\ child_performance = [c \in Children, k \in CategoryIds |-> << >>]
    /\ learning_paths = [c \in Children |-> << >>]
    /\ pc = [p \in Procs |-> "idle"]
    /\ call = [p \in Procs |-> NoCall]

\* the child's sessions are in the category that holds the items; with no
\* item anywhere a session may be in any category
StartedSessions ==
    IF activity_items = << >> THEN SelectSessions
    ELSE {s \in SelectSessions : s.category_id = activity_items[1].category_id}

NextSelect ==
    \/ \E s \in StartedSessions :
          /\ \A q \in Procs : call[q] = NoCall
          /\ update_performance_metrics(s.child_id, s.category_id)
    \/ \E p \in Procs, s \in StartedSessions : select_next_activity(p, s)

SpecSelect == InitSelect /\ [][NextSelect]_vars

(***************************************************************************)
(* Scoring of one transcribed attempt: the request holds the name of the   *)
(* item and the text returned by the transcription service.                *)
(***************************************************************************)
MaxTranscript == 5

TranscriptChars == {"t", "a", "T", "-", " "}

ItemNames == {<<"t", "a">>, <<"D", "a">>, <<"a", "t">>, <<"-">>}

Texts(chars, n) == UNION {[1..m -> chars] : m \in 0..n}

ScoreSessions == {[child_id |-> "c1", category_id |-> "k1"]}

InitScore ==
    /\ session_activities = EmptyBag
    /\ child_performance = [c \in Children, k \in CategoryIds |-> << >>]
    /\ learning_paths = [c \in Children |-> << >>]
    /\ pc = [p \in Procs |-> "idle"]
    /\ activity_items = ItemCatalog
    /\ NewManager
    /\ \E name \in ItemNames, transcription \in Texts(TranscriptChars, MaxTranscript) :
          call = [p \in Procs |->
                     IF p = "p1" THEN [expected |-> name, transcription |-> transcription]
                     ELSE NoCall]

NextScore ==
    \E p \in Procs, s \in ScoreSessions : process_audio_transcription(p, s)

SpecScore == InitScore /\ [][NextScore]_vars

(***************************************************************************)
(* save_learning_path(child_id, path_data) called with any path_data, as   *)
(* steps of the caller's transaction.                                      *)
(***************************************************************************)
StoredRow(k, target, priority) ==
    [category_id |-> k, target_score |-> target,
     current_priority |-> priority, status |-> "pending"]

StoredPaths ==
    { << >>,
      << StoredRow("k3", 7, 1) >>,
      << StoredRow("k3", 7, 1), StoredRow("k1", 5, 2) >> }

PathItemLists ==
    { << >>,
      << [category_id |-> "k2", target_score |-> 7, priority |-> 1] >>,
      << [category_id |-> "k1", target_score |-> 9, priority |-> 1],
         [category_id |-> "k2", target_score |-> 7, priority |-> 2] >> }

\* lists, dicts with a 'paths' key, a dict without one, a string and None
PathData ==
    {[kind |-> "list", items |-> items] : items \in PathItemLists}
        \cup {[kind |-> "dict", child_id |-> c, paths |-> items] :
                 c \in Children, items \in PathItemLists}
        \cup {[kind |-> "dict", child_id |-> c] : c \in Children}
        \cup {[kind |-> "str"], [kind |-> "None"]}

InitSave ==
    /\ session_activities = EmptyBag
    /\ child_performance = [c \in Children, k \in CategoryIds |-> << >>]
    /\ learning_paths \in [Children -> StoredPaths]
    /\ pc = [p \in Procs |-> "idle"]
    /\ call = [p \in Procs |-> NoCall]
    /\ activity_items = ItemCatalog
    /\ NewManager

\* a DELETE that is committed on its own
SaveCallAutocommit(p, c, path_data) ==
    /\ \A q \in Procs : pc[q] = "idle"
    /\ call' = [call EXCEPT ![p] = [child_id |-> c, path_data |-> path_data,
                                    deleted |-> learning_paths[c]]]
    /\ pc' = [pc EXCEPT ![p] = "deleted"]
    /\ learning_paths' = [learning_paths EXCEPT ![c] = << >>]
    /\ UNCHANGED <<activity_items, manager, session_activities, child_performance>>

\* lines 406-411: the DELETE of the child's rows, in the caller's transaction
SaveCall(p, c, path_data) ==
    /\ \A q \in Procs : pc[q] = "idle"
    /\ call' = [call EXCEPT ![p] = [child_id |-> c, path_data |-> path_data,
                                    deleted |-> learning_paths[c]]]
    /\ pc' = [pc EXCEPT ![p] = "deleted"]
    /\ UNCHANGED <<activity_items, manager, session_activities, child_performance, learning_paths>>

\* lines 418-419: raise ValueError
SaveReject(p) ==
    /\ pc[p] = "deleted"
    /\ ~ValidPathData(call[p].path_data)
    /\ pc' = [pc EXCEPT ![p] = "rejected"]
    /\ UNCHANGED <<activity_items, manager, session_activities, child_performance,
                   learning_paths, call>>

\* the caller's session ends without a commit: the DELETE is rolled back
SaveRollback(p) ==
    /\ pc[p] = "rejected"
    /\ pc' = [pc EXCEPT ![p] = "idle"]
    /\ call' = [call EXCEPT ![p] = NoCall]
    /\ UNCHANGED <<activity_items, manager, session_activities, child_performance, learning_paths>>

NextSave ==
    \/ \E p \in Procs, c \in Children, path_data \in PathData : SaveCall(p, c, path_data)
    \/ \E p \in Procs : SaveAdd(p)
    \/ \E p \in Procs : SaveReject(p)
    \/ \E p \in Procs : SaveCommit(p)
    \/ \E p \in Procs : SaveRollback(p)

SpecSave == InitSave /\ [][NextSave]_vars

(***************************************************************************)
(* Recording attempts and deleting items, each handler as the step that    *)
(* looks up and the step that writes and commits.  session_activities      *)
(* .item_id is a foreign key to activity_items.id, which the store checks  *)
(* when a row is written.                                                  *)
(***************************************************************************)
MaxRecorded == 2

IntegrityItems == {"i1", "i2"}

ItemIds(items) == {items[i].id : i \in 1..Len(items)}

\* the answer of a finished request
Answered(status) == [status |-> status]

InitIntegrity ==
    /\ session_activities = EmptyBag
    /\ child_performance = [c \in Children, k \in CategoryIds |-> << >>]
    /\ learning_paths = [c \in Children |-> << >>]
    /\ pc = [p \in Procs |-> "idle"]
    /\ call = [p \in Procs |-> NoCall]
    /\ activity_items = SubSeq(ItemCatalog, 1, Cardinality(IntegrityItems))
    /\ NewManager

\* record_response lines 194-205: the session exists; 404 for an unknown item
RecordLookup(p, s, item_id, t, b) ==
    /\ pc[p] = "idle"
    /\ IF item_id \in ItemIds(activity_items)
       THEN /\ pc' = [pc EXCEPT ![p] = "insert"]
            /\ call' = [call EXCEPT ![p] =
                          [session |-> s, item_id |-> item_id,
                           response_type |-> t, is_correct |-> b]]
       ELSE /\ call' = [call EXCEPT ![p] = Answered(404)]
            /\ UNCHANGED pc
    /\ UNCHANGED <<activity_items, manager, session_activities, child_performance, learning_paths>>

\* process_audio_response lines 34-46: the same checks, the attempt is verbal
AudioLookup(p, s, item_id, b) ==
    /\ pc[p] = "idle"
    /\ IF item_id \in ItemIds(activity_items)
       THEN /\ pc' = [pc EXCEPT ![p] = "insert"]
            /\ call' = [call EXCEPT ![p] =
                          [session |-> s, item_id |-> item_id,
                           response_type |-> "verbal", is_correct |-> b]]
       ELSE /\ call' = [call EXCEPT ![p] = Answered(404)]
            /\ UNCHANGED pc
    /\ UNCHANGED <<activity_items, manager, session_activities, child_performance, learning_paths>>

\* db.add, db.commit: the row is stored unless its item is gone, which the
\* foreign key answers with an error
RecordCommit(p) ==
    /\ pc[p] = "insert"
    /\ TotalActivities < MaxRecorded
    /\ IF call[p].item_id \in ItemIds(activity_items)
       THEN /\ AddActivity(call[p])
            /\ call' = [call EXCEPT ![p] = Answered(200)]
       ELSE /\ call' = [call EXCEPT ![p] = Answered(500)]
            /\ UNCHANGED session_activities
    /\ pc' = [pc EXCEPT ![p] = "idle"]
    /\ UNCHANGED <<activity_items, manager, child_performance, learning_paths>>

\* the item is used by a SessionActivity row
UsedInSessions(acts, item_id) ==
    \E a \in BagToSet(acts) : a.item_id = item_id

\* delete_activity_item lines 86-99: 404 for an unknown item, 400 for a used one
DeleteLookup(p, item_id) ==
    /\ pc[p] = "idle"
    /\ IF item_id \notin ItemIds(activity_items)
       THEN /\ call' = [call EXCEPT ![p] = Answered(404)]
            /\ UNCHANGED pc
       ELSE IF UsedInSessions(session_activities, item_id)
       THEN /\ call' = [call EXCEPT ![p] = Answered(400)]
            /\ UNCHANGED pc
       ELSE /\ pc' = [pc EXCEPT ![p] = "delete"]
            /\ call' = [call EXCEPT ![p] = [item_id |-> item_id]]
    /\ UNCHANGED <<activity_items, manager, session_activities, child_performance, learning_paths>>

\* a delete that the store does not check against the rows that use the item
DeleteCommitUnchecked(p) ==
    /\ pc[p] = "delete"
    /\ LET Others(it) == it.id # call[p].item_id
       IN  activity_items' = SelectSeq(activity_items, Others)
    /\ call' = [call EXCEPT ![p] = Answered(204)]
    /\ pc' = [pc EXCEPT ![p] = "idle"]
    /\ UNCHANGED <<manager, session_activities, child_performance, learning_paths>>

\* lines 102-103: db.delete, db.commit; the foreign key refuses the delete of
\* an item that a row has come to use
DeleteCommit(p) ==
    /\ pc[p] = "delete"
    /\ IF UsedInSessions(session_activities, call[p].item_id)
       THEN /\ call' = [call EXCEPT ![p] = Answered(500)]
            /\ UNCHANGED activity_items
       ELSE /\ LET Others(it) == it.id # call[p].item_id
               IN  activity_items' = SelectSeq(activity_items, Others)
            /\ call' = [call EXCEPT ![p] = Answered(204)]
    /\ pc' = [pc EXCEPT ![p] = "idle"]
    /\ UNCHANGED <<manager, session_activities, child_performance, learning_paths>>

NextIntegrity ==
    \/ \E p \in Procs, s \in RaceSessions, item_id \in IntegrityItems,
          t \in ResponseTypes, b \in BOOLEAN : RecordLookup(p, s, item_id, t, b)
    \/ \E p \in Procs, s \in RaceSessions, item_id \in IntegrityItems,
          b \in BOOLEAN : AudioLookup(p, s, item_id, b)
    \/ \E p \in Procs : RecordCommit(p)
    \/ \E p \in Procs, item_id \in IntegrityItems : DeleteLookup(p, item_id)
    \/ \E p \in Procs : DeleteCommit(p)

SpecIntegrity == InitIntegrity /\ [][NextIntegrity]_vars

(***************************************************************************)
(* The websocket endpoint and its ConnectionManager.  Each connection runs *)
(* websocket_endpoint: connect under a fresh id, then one message at a     *)
(* time until the socket fails, which ends in manager.disconnect.          *)
(***************************************************************************)
MaxRoom == 2

Connections == {"w1", "w2", "w3"}

\* session_id is what the client sent; the empty string is the falsy value
SessionIds == {"", "s1", "s2"}

\* truth value of a session id in "if not manager.connection_sessions.get(..)"
Truthy(session_id) == session_id # "" /\ session_id # "None"

\* outcomes of a send_json on a socket
SendOutcomes == {"ok", "WebSocketDisconnect", "error"}

\* the manager's three dicts as one value
Manager(ac, cs, sr) ==
    [active_connections |-> ac, connection_sessions |-> cs, session_rooms |-> sr]

ThisManager == Manager(active_connections, connection_sessions, session_rooms)

\* dict.get(key) with None as "None"
DictGetOrNone(d, key) == IF key \in DOMAIN d THEN d[key] ELSE "None"

\* del d[key]
DictDel(d, key) == [x \in DOMAIN d \ {key} |-> d[x]]

\* d[key] = value
DictSet(d, key, value) == (key :> value) @@ d

\* position of the first occurrence of x in list l, 0 if there is none
FirstIndex(l, x) ==
    IF \E i \in 1..Len(l) : l[i] = x
    THEN CHOOSE i \in 1..Len(l) : l[i] = x /\ \A j \in 1..(i - 1) : l[j] # x
    ELSE 0

\* list.remove(x) of a list that holds x
ListRemove(l, x) ==
    SubSeq(l, 1, FirstIndex(l, x) - 1) \o SubSeq(l, FirstIndex(l, x) + 1, Len(l))

\* ConnectionManager.disconnect; list.remove of an absent id raises
\* ValueError before the del of line 22
disconnect(m, connection_id) ==
    LET ac == m.active_connections \ {connection_id}
        cs == m.connection_sessions
        sr == m.session_rooms
    IN  IF connection_id \notin DOMAIN cs
        THEN Manager(ac, cs, sr)
        ELSE IF cs[connection_id] \notin DOMAIN sr
        THEN Manager(ac, DictDel(cs, connection_id), sr)
        ELSE IF FirstIndex(sr[cs[connection_id]], connection_id) = 0
        THEN Manager(ac, cs, sr)
        ELSE Manager(ac, DictDel(cs, connection_id),
                     [sr EXCEPT ![cs[connection_id]] = ListRemove(@, connection_id)])

\* ConnectionManager.join_session
join_session(m, connection_id, session_id) ==
    LET sr == m.session_rooms
    IN  Manager(m.active_connections,
                DictSet(m.connection_sessions, connection_id, session_id),
                IF session_id \notin DOMAIN sr
                THEN DictSet(sr, session_id, <<connection_id>>)
                ELSE [sr EXCEPT ![session_id] = Append(@, connection_id)])

\* the loop of broadcast_to_session from position i of the room, the list
\* being the one disconnect removes from: m is the manager so far, sent the
\* ids a message went to, raised whether a send raised another exception
RECURSIVE BroadcastFrom(_, _, _, _, _)
BroadcastFrom(m, session_id, i, out, sent) ==
    IF session_id \notin DOMAIN m.session_rooms \/ i > Len(m.session_rooms[session_id])
    THEN [m |-> m, sent |-> sent, raised |-> FALSE]
    ELSE LET connection_id == m.session_rooms[session_id][i]
         IN  IF connection_id \notin m.active_connections
             THEN BroadcastFrom(m, session_id, i + 1, out, sent)
             ELSE IF out[connection_id] = "ok"
             THEN BroadcastFrom(m, session_id, i + 1, out, sent \cup {connection_id})
             ELSE IF out[connection_id] = "WebSocketDisconnect"
             THEN BroadcastFrom(disconnect(m, connection_id), session_id, i + 1, out, sent)
             ELSE [m |-> m, sent |-> sent, raised |-> TRUE]

\* ConnectionManager.broadcast_to_session
broadcast_to_session(m, session_id, out) == BroadcastFrom(m, session_id, 1, out, {})

\* the manager becomes m
SetManager(m) ==
    /\ active_connections' = m.active_connections
    /\ connection_sessions' = m.connection_sessions
    /\ session_rooms' = m.session_rooms

InitWs ==
    /\ session_activities = EmptyBag
    /\ child_performance = [c \in Children, k \in CategoryIds |-> << >>]
    /\ learning_paths = [c \in Children |-> << >>]
    /\ pc = [c \in Connections |-> "new"]
    /\ call = [p \in Procs |-> NoCall]
    /\ activity_items = ItemCatalog
    /\ NewManager

\* ConnectionManager.connect, called once per connection under a fresh uuid
connect(c) ==
    /\ pc[c] = "new"
    /\ pc' = [pc EXCEPT ![c] = "open"]
    /\ active_connections' = active_connections \cup {c}
    /\ UNCHANGED <<connection_sessions, session_rooms>>
    /\ UNCHANGED <<activity_items, session_activities, child_performance, learning_paths, call>>

\* receive_json raises, or the message has no "type": both except clauses of
\* the endpoint call manager.disconnect
Disconnect(c) ==
    /\ pc[c] = "open"
    /\ pc' = [pc EXCEPT ![c] = "closed"]
    /\ SetManager(disconnect(ThisManager, c))
    /\ UNCHANGED <<activity_items, session_activities, child_performance, learning_paths, call>>

\* lines 18-26: an initialize_session message of a connection whose session
\* is not set or falsy; the answer may fail, which ends the endpoint
InitializeSession(c, session_id, out) ==
    /\ pc[c] = "open"
    /\ ~Truthy(DictGetOrNone(connection_sessions, c))
    /\ session_id \in DOMAIN session_rooms => Len(session_rooms[session_id]) < MaxRoom
    /\ LET joined == join_session(ThisManager, c, session_id)
       IN  IF c \in active_connections /\ out # "ok"
           THEN /\ SetManager(disconnect(joined, c))
                /\ pc' = [pc EXCEPT ![c] = "closed"]
           ELSE /\ SetManager(joined)
                /\ UNCHANGED pc
    /\ UNCHANGED <<activity_items, session_activities, child_performance, learning_paths, call>>

\* lines 30-50: a child_response or caregiver_command message of a connection
\* with a session is broadcast to the session's room
Broadcast(c, out) ==
    /\ pc[c] = "open"
    /\ Truthy(DictGetOrNone(connection_sessions, c))
    /\ LET done == broadcast_to_session(ThisManager, connection_sessions[c], out)
       IN  IF done.raised
           THEN /\ SetManager(disconnect(done.m, c))
                /\ pc' = [pc EXCEPT ![c] = "closed"]
           ELSE /\ SetManager(done.m)
                /\ UNCHANGED pc
    /\ UNCHANGED <<activity_items, session_activities, child_performance, learning_paths, call>>

\* lines 51-55: a ping of a connection with a session is answered to it
Ping(c, out) ==
    /\ pc[c] = "open"
    /\ Truthy(DictGetOrNone(connection_sessions, c))
    /\ IF c \in active_connections /\ out # "ok"
       THEN /\ SetManager(disconnect(ThisManager, c))
            /\ pc' = [pc EXCEPT ![c] = "closed"]
       ELSE UNCHANGED <<manager, pc>>
    /\ UNCHANGED <<activity_items, session_activities, child_performance, learning_paths, call>>

NextWs ==
    \/ \E c \in Connections : connect(c)
    \/ \E c \in Connections : Disconnect(c)
    \/ \E c \in Connections, session_id \in SessionIds, out \in SendOutcomes :
          InitializeSession(c, session_id, out)
    \/ \E c \in Connections, out \in [Connections -> SendOutcomes] : Broadcast(c, out)
    \/ \E c \in Connections, out \in SendOutcomes : Ping(c, out)

SpecWs == InitWs /\ [][NextWs]_vars

(***************************************************************************)
(* Recommender.get_recommendations(child_id): the rule-based payload, the  *)
(* label of the classifier and the confidence.  The classifier is a        *)
(* trained model; what it answers is an input of the call.                 *)
(***************************************************************************)
MaxRecommendAttempts == 2

\* ActivityCategory rows of this part, in the order a query returns them:
\* the catalog with names, and three more easy categories
RecommendCategories ==
    << [id |-> "k1", name |-> "Actions", difficulty_level |-> "hard"],
       [id |-> "k2", name |-> "Objects", difficulty_level |-> "medium"],
       [id |-> "k3", name |-> "Animals", difficulty_level |-> "easy"],
       [id |-> "k4", name |-> "Places", difficulty_level |-> "None"],
       [id |-> "k5", name |-> "Feelings", difficulty_level |-> "hard"],
       [id |-> "k6", name |-> "Food", difficulty_level |-> "easy"],
       [id |-> "k7", name |-> "Colors", difficulty_level |-> "easy"],
       [id |-> "k8", name |-> "Toys", difficulty_level |-> "easy"] >>

\* an ActivityItem row with a name
NamedItem(id, name, k, level) ==
    [id |-> id, name |-> name, category_id |-> k, difficulty_level |-> level,
     audio_url |-> TRUE, image_url |-> TRUE]

RecommendItems ==
    << NamedItem("i1", "jump", "k1", "hard"),
       NamedItem("i2", "run", "k1", "easy"),
       NamedItem("i3", "cup", "k2", "hard"),
       NamedItem("i4", "cat", "k3", "easy"),
       NamedItem("i5", "dog", "k3", "easy"),
       NamedItem("i6", "cow", "k3", "medium"),
       NamedItem("i7", "hen", "k3", "easy"),
       NamedItem("i8", "red", "k7", "easy"),
       NamedItem("i9", "blue", "k7", "easy"),
       NamedItem("i10", "ball", "k8", "easy"),
       NamedItem("i11", "spoon", "k2", "hard"),
       NamedItem("i12", "plate", "k2", "hard"),
       NamedItem("i13", "fork", "k2", "hard"),
       NamedItem("i14", "bowl", "k2", "hard"),
       NamedItem("i15", "pan", "k2", "hard") >>

\* the labels the classifier was fitted on (_initialize_with_dummy_data)
ModelLabels == {"Animals", "Food", "Colors"}

\* seq[:n]
Limit(seq, n) == SubSeq(seq, 1, Min(n, Len(seq)))

\* the ChildPerformance rows of a child as the list of their references, by
\* category in table order and by insertion within a category
RECURSIVE PerformanceList(_, _, _)
PerformanceList(perf, c, j) ==
    IF j > Len(RecommendCategories) THEN << >>
    ELSE LET k == RecommendCategories[j].id
         IN  (IF k \in CategoryIds
              THEN [i \in 1..Len(perf[c, k]) |-> <<k, i>>]
              ELSE << >>) \o PerformanceList(perf, c, j + 1)

\* perf.category
CategoryOf(k) ==
    LET j == CHOOSE i \in 1..Len(RecommendCategories) : RecommendCategories[i].id = k
    IN  RecommendCategories[j]

\* [f(x) for x in seq]
CategoryNames(refs) == [i \in 1..Len(refs) |-> CategoryOf(refs[i][1]).name]

ItemNamesOf(items) == [i \in 1..Len(items) |-> items[i].name]

\* _get_recommended_difficulty
_get_recommended_difficulty(category) ==
    IF category.difficulty_level = "easy" THEN "medium"
    ELSE IF category.difficulty_level = "medium" THEN "hard"
    ELSE "hard"

\* _suggest_next_activities: per name the first category of that name and
\* its first five items of the recommended difficulty
_suggest_next_activities(items, weak_categories) ==
    LET names == Limit(weak_categories, 3)
        Known(name) == \E j \in 1..Len(RecommendCategories) : RecommendCategories[j].name = name
        First(name) ==
            RecommendCategories[CHOOSE j \in 1..Len(RecommendCategories) :
                /\ RecommendCategories[j].name = name
                /\ \A h \in 1..(j - 1) : RecommendCategories[h].name # name]
        Wanted(name) ==
            LET Fits(it) == /\ it.category_id = First(name).id
                            /\ it.difficulty_level = _get_recommended_difficulty(First(name))
            IN  SelectSeq(items, Fits)
        found == SelectSeq(names, Known)
    IN  [i \in 1..Len(found) |->
            [category |-> First(found[i]).name,
             items |-> ItemNamesOf(Limit(Wanted(found[i]), 5))]]

\* max(performances, key=...) and min(...): the first row with the extreme score
FirstExtreme(perf, c, list, Better(_, _)) ==
    list[CHOOSE i \in 1..Len(list) :
            /\ \A j \in 1..Len(list) :
                  ~Better(PerfRow(perf, c, list[j]).overall_score,
                          PerfRow(perf, c, list[i]).overall_score)
            /\ \A j \in 1..(i - 1) :
                  Better(PerfRow(perf, c, list[i]).overall_score,
                         PerfRow(perf, c, list[j]).overall_score)]

\* _generate_progress_report of a child with rows
_generate_progress_report(perf, c) ==
    LET list == PerformanceList(perf, c, 1)
        Above(a, b) == FracLt(b, a)
        Below(a, b) == FracLt(a, b)
    IN  [average_score |-> AvgScore(perf, c),
         strongest_category |-> CategoryOf(FirstExtreme(perf, c, list, Above)[1]).name,
         weakest_category |-> CategoryOf(FirstExtreme(perf, c, list, Below)[1]).name]

\* _generate_encouragement: the text, and the names it joins
_generate_encouragement(strong_categories) ==
    IF strong_categories = << >>
    THEN [text |-> "Keep practicing! You're making progress.", names |-> << >>]
    ELSE [text |-> "Great work on {}! Let's build on this success.",
          names |-> Limit(strong_categories, 3)]

\* the easy categories without the limit of three
_get_initial_recommendations_unlimited(items) ==
    LET Easy(cat) == cat.difficulty_level = "easy"
        basic_categories == SelectSeq(RecommendCategories, Easy)
        ItemsIn(cat) == LET Mine(it) == it.category_id = cat.id IN SelectSeq(items, Mine)
    IN  [practice_more |-> << >>,
         next_activities |->
             [i \in 1..Len(basic_categories) |->
                 [category |-> basic_categories[i].name,
                  items |-> ItemNamesOf(Limit(ItemsIn(basic_categories[i]), 3))]],
         progress_tracking |-> "New learner - starting with basic activities",
         encouragement |-> "Let's get started with some fun activities!"]

\* _get_initial_recommendations
_get_initial_recommendations(items) ==
    LET Easy(cat) == cat.difficulty_level = "easy"
        basic_categories == Limit(SelectSeq(RecommendCategories, Easy), 3)
        ItemsIn(cat) == LET Mine(it) == it.category_id = cat.id IN SelectSeq(items, Mine)
    IN  [practice_more |-> << >>,
         next_activities |->
             [i \in 1..Len(basic_categories) |->
                 [category |-> basic_categories[i].name,
                  items |-> ItemNamesOf(Limit(ItemsIn(basic_categories[i]), 3))]],
         progress_tracking |-> "New learner - starting with basic activities",
         encouragement |-> "Let's get started with some fun activities!"]

\* _get_rule_based_recommendations
_get_rule_based_recommendations(perf, items, c) ==
    LET performances == PerformanceList(perf, c, 1)
        Weak(ref) == FracLt(PerfRow(perf, c, ref).overall_score, <<6, 10>>)
        Strong(ref) == FracLe(<<8, 10>>, PerfRow(perf, c, ref).overall_score)
        weak_categories == Limit(CategoryNames(SelectSeq(performances, Weak)), 3)
        strong_categories == Limit(CategoryNames(SelectSeq(performances, Strong)), 2)
    IN  IF performances = << >>
        THEN _get_initial_recommendations(items)
        ELSE [practice_more |-> weak_categories,
              next_activities |-> _suggest_next_activities(items, weak_categories),
              progress_tracking |-> _generate_progress_report(perf, c),
              encouragement |-> _generate_encouragement(strong_categories)]

\* sum(p.<field> for p in performances)
RECURSIVE FieldSum(_, _, _, _)
FieldSum(perf, c, list, field) ==
    IF list = << >> THEN 0
    ELSE PerfRow(perf, c, Head(list))[field] + FieldSum(perf, c, Tail(list), field)

\* _prepare_ml_input: the features computed from the rows; category_difficulty
\* and time_spent are read from the sessions and only feed the classifier
_prepare_ml_input(perf, c) ==
    LET performances == PerformanceList(perf, c, 1)
        total_verbal == FieldSum(perf, c, performances, "verbal_attempts")
        total_selection == FieldSum(perf, c, performances, "selection_attempts")
    IN  [verbal_accuracy |->
             IF total_verbal > 0
             THEN <<FieldSum(perf, c, performances, "verbal_success"), total_verbal>>
             ELSE <<0, 1>>,
         selection_accuracy |->
             IF total_selection > 0
             THEN <<FieldSum(perf, c, performances, "selection_success"), total_selection>>
             ELSE <<0, 1>>,
         success_rate |-> AvgScore(perf, c),
         previous_attempts |-> total_verbal + total_selection]

\* _get_confidence_score: 0.6 * verbal_accuracy + 0.4 * selection_accuracy
_get_confidence_score(child_data) ==
    LET v == child_data.verbal_accuracy
        n == child_data.selection_accuracy
    IN  <<6 * v[1] * n[2] + 4 * n[1] * v[2], 10 * v[2] * n[2]>>

\* the fallback with the labels of the two upper bands exchanged
_get_rule_based_recommendation_swapped(child_data) ==
    IF FracLt(<<8, 10>>, child_data.success_rate) THEN "Objects"
    ELSE IF FracLt(<<6, 10>>, child_data.success_rate) THEN "Actions"
    ELSE "Animals"

\* RecommendationModel._get_rule_based_recommendation
_get_rule_based_recommendation(child_data) ==
    IF FracLt(<<8, 10>>, child_data.success_rate) THEN "Actions"
    ELSE IF FracLt(<<6, 10>>, child_data.success_rate) THEN "Objects"
    ELSE "Animals"

\* RecommendationModel.predict: the label of the classifier, or the fallback
\* when the classifier or the decoding raises ("unavailable")
predict(child_data, predicted) ==
    IF predicted \in ModelLabels THEN predicted
    ELSE _get_rule_based_recommendation(child_data)

\* what get_recommendations returns: prepared is "ok" or "raises" for
\* _prepare_ml_input, predicted is a label, "unavailable", or "raises" for an
\* exception that leaves predict
GetRecommendations(perf, items, c, prepared, predicted) ==
    LET child_data == _prepare_ml_input(perf, c)
        rule_based == _get_rule_based_recommendations(perf, items, c)
    IN  IF prepared = "raises" \/ predicted = "raises"
        THEN rule_based
        ELSE rule_based @@
             [ml_recommendation |-> predict(child_data, predicted),
              confidence_score |-> _get_confidence_score(child_data),
              model_version |-> "1.0"]

InitRecommend ==
    /\ session_activities = EmptyBag
    /\ child_performance = [c \in Children, k \in CategoryIds |-> << >>]
    /\ learning_paths = [c \in Children |-> << >>]
    /\ pc = [p \in Procs |-> "idle"]
    /\ call = [p \in Procs |-> NoCall]
    /\ activity_items = RecommendItems
    /\ NewManager

\* one call of get_recommendations; the payload is kept with the call
get_recommendations(p, c, prepared, predicted) ==
    /\ call' = [call EXCEPT ![p] =
                  [child_id |-> c,
                   prepared |-> prepared,
                   predicted |-> IF prepared = "raises" THEN "None" ELSE predicted,
                   recommendations |->
                       GetRecommendations(child_performance, activity_items, c,
                                          prepared, predicted)]]
    /\ UNCHANGED <<activity_items, manager, session_activities, child_performance, learning_paths, pc>>

NextRecommend ==
    \/ \E s \in Sessions, t \in ResponseTypes, b \in BOOLEAN :
          /\ TotalActivities < MaxRecommendAttempts
          /\ \A q \in Procs : call[q] = NoCall
          /\ record_response(s, t, b)
    \/ \E s \in Sessions :
          /\ \A q \in Procs : call[q] = NoCall
          /\ update_performance_metrics(s.child_id, s.category_id)
    \/ \E c \in Children, prepared \in {"ok", "raises"},
          predicted \in ModelLabels \cup {"unavailable", "raises"} :
          get_recommendations("p1", c, prepared, predicted)

SpecRecommend == InitRecommend /\ [][NextRecommend]_vars

(***************************************************************************)
(* ProgressTracker.get_progress_trends(child_id).  Dates are day numbers,  *)
(* day 0 a Monday; pronunciation scores are in quarters, so that the sums  *)
(* and means of the floats are the exact ones.  resample('W') makes one    *)
(* bucket per calendar week from the first to the last date of the data,   *)
(* the weeks without a session included.                                   *)
(***************************************************************************)
MaxTrendAttempts == 3

\* a pronunciation_score that is None
NoPronunciationScore == -1

\* scores 0, 0.5 and 1 in quarters
ScoreUnit == 4

PronunciationScores == {NoPronunciationScore, 0, 2, 4}

\* TherapySession rows of child c1 with the day of start_time
TrendSessions ==
    {[child_id |-> "c1", category_id |-> "k1", start_day |-> 2],
     [child_id |-> "c1", category_id |-> "k2", start_day |-> 16],
     [child_id |-> "c1", category_id |-> "k1", start_day |-> 19],
     [child_id |-> "c1", category_id |-> "k2", start_day |-> 22]}

\* datetime.utcnow().date() of the calls
Todays == {22, 24}

FracAdd(x, y) == <<x[1] * y[2] + y[1] * x[2], x[2] * y[2]>>
FracSub(x, y) == <<x[1] * y[2] - y[1] * x[2], x[2] * y[2]>>
FracAbs(x) == <<IF x[1] < 0 THEN 0 - x[1] ELSE x[1], x[2]>>

\* the sessions of the child that start in the window and have activities
WindowSessions(acts, c, today, days) ==
    {a.session : a \in {b \in BagToSet(acts) :
                          /\ b.session.child_id = c
                          /\ b.session.start_day >= today - days
                          /\ b.session.start_day <= today}}

\* sum(a.pronunciation_score for a in session.activities if it is not None)
RECURSIVE SumOfScores(_, _)
SumOfScores(acts, rows) ==
    IF rows = {} THEN 0
    ELSE LET a == CHOOSE b \in rows : TRUE
         IN  (IF a.pronunciation_score = NoPronunciationScore THEN 0
              ELSE a.pronunciation_score * acts[a]) + SumOfScores(acts, rows \ {a})

\* len(session.activities)
RECURSIVE CountOf(_, _)
CountOf(acts, rows) ==
    IF rows = {} THEN 0
    ELSE LET a == CHOOSE b \in rows : TRUE IN acts[a] + CountOf(acts, rows \ {a})

\* lines 41-44: avg_score of a session with activities
SessionAvgScore(acts, s) ==
    LET rows == {a \in BagToSet(acts) : a.session = s}
    IN  <<SumOfScores(acts, rows), ScoreUnit * CountOf(acts, rows)>>

\* _get_timeframe_trend: the rows of the DataFrame
_get_timeframe_trend(acts, c, today, days) ==
    {[date |-> s.start_day, score |-> SessionAvgScore(acts, s),
      category |-> CategoryOf(s.category_id).name] :
        s \in WindowSessions(acts, c, today, days)}

\* the calendar week (Monday to Sunday) of a date
Week(date) == date \div 7

RECURSIVE SumOfRows(_)
SumOfRows(rows) ==
    IF rows = {} THEN <<0, 1>>
    ELSE LET r == CHOOSE x \in rows : TRUE
         IN  FracAdd(r.score, SumOfRows(rows \ {r}))

\* mean of the scores of a set of rows that is not empty
MeanScore(rows) ==
    LET total == SumOfRows(rows) IN <<total[1], total[2] * Cardinality(rows)>>

\* data['score'].resample('W').mean() at the week w
WeeklyMean(data, w) == MeanScore({r \in data : Week(r.date) = w})

\* the trend with "more than two buckets" for "more than one"
_calculate_trend_three(data) ==
    IF data = {} THEN [trend |-> "no data", rate |-> <<0, 1>>]
    ELSE LET weeks == {Week(r.date) : r \in data}
             first == CHOOSE w \in weeks : \A v \in weeks : w <= v
             last == CHOOSE w \in weeks : \A v \in weeks : v <= w
             len == last - first + 1
             diff == FracSub(WeeklyMean(data, last), WeeklyMean(data, first))
             slope == <<diff[1], diff[2] * len>>
         IN  IF len > 2
             THEN [trend |-> IF slope[1] > 0 THEN "improving"
                             ELSE IF slope[1] < 0 THEN "declining" ELSE "stable",
                   rate |-> FracAbs(slope),
                   current_score |-> WeeklyMean(data, last),
                   starting_score |-> WeeklyMean(data, first)]
             ELSE [trend |-> "insufficient data", rate |-> <<0, 1>>]

\* _calculate_trend
_calculate_trend(data) ==
    IF data = {} THEN [trend |-> "no data", rate |-> <<0, 1>>]
    ELSE LET weeks == {Week(r.date) : r \in data}
             first == CHOOSE w \in weeks : \A v \in weeks : w <= v
             last == CHOOSE w \in weeks : \A v \in weeks : v <= w
             len == last - first + 1
             diff == FracSub(WeeklyMean(data, last), WeeklyMean(data, first))
             slope == <<diff[1], diff[2] * len>>
         IN  IF len > 1
             THEN [trend |-> IF slope[1] > 0 THEN "improving"
                             ELSE IF slope[1] < 0 THEN "declining" ELSE "stable",
                   rate |-> FracAbs(slope),
                   current_score |-> WeeklyMean(data, last),
                   starting_score |-> WeeklyMean(data, first)]
             ELSE [trend |-> "insufficient data", rate |-> <<0, 1>>]

\* _identify_improvement_areas: the categories of the weekly rows under 0.6
\* (the text lists them by frequency) and the category of the least monthly
\* mean, the first by name among equals
_identify_improvement_areas(weekly, monthly) ==
    LET weekly_low == {r \in weekly : FracLt(r.score, <<6, 10>>)}
        names == {r.category : r \in monthly}
        MeanOf(name) == MeanScore({r \in monthly : r.category = name})
        least == {n \in names : \A m \in names : FracLe(MeanOf(n), MeanOf(m))}
        order == CategoryNames([j \in 1..Len(RecommendCategories) |->
                                   <<RecommendCategories[j].id, 1>>])
    IN  [recent_challenges |-> {r.category : r \in weekly_low},
         long_term_focus |->
             IF monthly = {} THEN {}
             ELSE {order[CHOOSE j \in 1..Len(order) :
                      /\ order[j] \in least
                      /\ \A h \in 1..(j - 1) : order[h] \notin least]}]

InitTrend ==
    /\ session_activities = EmptyBag
    /\ child_performance = [c \in Children, k \in CategoryIds |-> << >>]
    /\ learning_paths = [c \in Children |-> << >>]
    /\ pc = [p \in Procs |-> "idle"]
    /\ call = [p \in Procs |-> NoCall]
    /\ activity_items = ItemCatalog
    /\ NewManager

\* an attempt of a session is stored with its pronunciation score
RecordScored(s, score) ==
    /\ TotalActivities < MaxTrendAttempts
    /\ \A q \in Procs : call[q] = NoCall
    /\ AddActivity([session |-> s, pronunciation_score |-> score])
    /\ UNCHANGED <<activity_items, manager, child_performance, learning_paths, pc, call>>

\* get_progress_trends of a call made on the day today
get_progress_trends(p, c, today) ==
    /\ LET weekly == _get_timeframe_trend(session_activities, c, today, 7)
           monthly == _get_timeframe_trend(session_activities, c, today, 30)
       IN  call' = [call EXCEPT ![p] =
                      [child_id |-> c, today |-> today,
                       weekly_trend |-> _calculate_trend(weekly),
                       monthly_trend |-> _calculate_trend(monthly),
                       improvement_areas |-> _identify_improvement_areas(weekly, monthly)]]
    /\ UNCHANGED <<activity_items, manager, session_activities, child_performance, learning_paths, pc>>

NextTrend ==
    \/ \E s \in TrendSessions, score \in PronunciationScores : RecordScored(s, score)
    \/ \E c \in {s.child_id : s \in TrendSessions}, today \in Todays :
          get_progress_trends("p1", c, today)

SpecTrend == InitTrend /\ [][NextTrend]_vars

(***************************************************************************)
(* Properties of the performance aggregator                                *)
(***************************************************************************)
AllRows ==
    {child_performance[c, k][i] :
        <<c, k, i>> \in {x \in Children \X CategoryIds \X (1..Cardinality(Procs)) :
                            x[3] <= Len(child_performance[x[1], x[2]])}}

\* C1: every persisted overall_score lies in [0,1], is a defined number
\* (no division by zero), and is 0 when the row counts no verbal and no
\* selection attempt.
C1_ScoreInUnitInterval ==
    \A r \in AllRows :
        /\ r.overall_score[2] > 0
        /\ 0 <= r.overall_score[1]
        /\ r.overall_score[1] <= r.overall_score[2]
        /\ (r.verbal_attempts = 0 /\ r.selection_attempts = 0) => r.overall_score[1] = 0

\* a row written from a mix of right and wrong answers in both modalities
C1_Witness ==
    \E r \in AllRows :
        /\ r.verbal_attempts > 0 /\ r.selection_attempts > 0
        /\ 0 < r.overall_score[1] /\ r.overall_score[1] < r.overall_score[2]

\* C2: a second call of update_performance_metrics for the same (child,
\* category), with no attempt recorded in between, returns a row with the
\* same score and counts as the first call, leaves the first call's row as it
\* was, and adds no row.
C2_Idempotent ==
    \A s \in Sessions :
        LET c == s.child_id
            k == s.category_id
            m == ComputeMetrics(session_activities, c, k)
        IN  \A r1 \in FirstPerformance(child_performance, c, k) :
                LET t1 == WritePerformance(child_performance, [m EXCEPT !.performance = r1])
                    i1 == IF r1 = NoRow THEN Len(t1[c, k]) ELSE r1
                IN  \A r2 \in FirstPerformance(t1, c, k) :
                        LET t2 == WritePerformance(t1, [m EXCEPT !.performance = r2])
                        IN  /\ Len(t2[c, k]) = Len(t1[c, k])
                            /\ t2[c, k][r2] = t1[c, k][i1]
                            /\ t2[c, k][i1] = t1[c, k][i1]

\* a call about to overwrite a row that already holds what it computed from
\* at least one counted attempt
C2_Witness ==
    \E p \in Procs :
        /\ pc[p] = "write"
        /\ call[p].performance # NoRow
        /\ call[p].verbal_attempts + call[p].selection_attempts > 0
        /\ child_performance[call[p].child_id, call[p].category_id][call[p].performance]
              = PerformanceRow(call[p])

\* C3: the row written by update_performance_metrics counts every attempt of
\* the (child, category): the verbal ones as verbal_attempts, the nonverbal
\* ones as selection_attempts, so that the two add up to the number of
\* recorded attempts.
C3_CountsEveryAttempt ==
    [][\A s \in Sessions :
          update_performance_metrics(s.child_id, s.category_id) =>
              LET mine   == ActivitiesOf(session_activities, s.child_id, s.category_id)
                  IsV(a) == a.response_type = "verbal"
                  IsN(a) == a.response_type = "nonverbal"
                  rows   == child_performance'[s.child_id, s.category_id]
              IN  (\A a \in BagToSet(mine) : IsV(a) \/ IsN(a)) =>
                      \E i \in 1..Len(rows) :
                          /\ rows[i].verbal_attempts = CountWhere(mine, IsV)
                          /\ rows[i].selection_attempts = CountWhere(mine, IsN)
                          /\ rows[i].verbal_attempts + rows[i].selection_attempts
                                = BagCardinality(mine)]_vars

\* C4: there is at most one ChildPerformance row per (child, category).
C4_OneRowPerPair ==
    \A c \in Children, k \in CategoryIds : Len(child_performance[c, k]) <= 1

\* C5 as stated: with attempts in both modalities overall_score is
\* 0.7 * (verbal_success / verbal_attempts)
\*   + 0.3 * (selection_success / selection_attempts).
C5_AverageOfRatios ==
    \A r \in AllRows :
        (r.verbal_attempts > 0 /\ r.selection_attempts > 0) =>
            FracEq(r.overall_score,
                   <<7 * r.verbal_success * r.selection_attempts
                        + 3 * r.selection_success * r.verbal_attempts,
                     10 * r.verbal_attempts * r.selection_attempts>>)

\* C5 as amended: with at least one counted attempt overall_score is
\* (0.7 * verbal_success + 0.3 * selection_success)
\*   / (0.7 * verbal_attempts + 0.3 * selection_attempts).
C5_WeightedSuccessRate ==
    \A r \in AllRows :
        (r.verbal_attempts + r.selection_attempts > 0) =>
            /\ r.overall_score[2] > 0
            /\ r.overall_score[1] * (7 * r.verbal_attempts + 3 * r.selection_attempts)
                  = r.overall_score[2] * (7 * r.verbal_success + 3 * r.selection_success)

\* a row with attempts in both modalities, more of one than of the other
C5_Witness ==
    \E r \in AllRows :
        /\ r.verbal_attempts > 0 /\ r.selection_attempts > 0
        /\ r.verbal_attempts # r.selection_attempts
        /\ r.verbal_success + r.selection_success > 0

(***************************************************************************)
(* Properties of the profile analyzer                                      *)
(***************************************************************************)
Profile(c) == analyze_child_profile(child_performance, session_activities, c)

\* C6: strengths are exactly the categories with an overall_score >= 0.7,
\* challenges exactly those with an overall_score <= 0.3, no category is in
\* both, and a category whose scores all lie strictly between is in neither.
C6_StrengthsAndChallenges ==
    \A c \in Children :
        LET rows(k) == {child_performance[c, k][i] : i \in 1..Len(child_performance[c, k])}
            high(k) == \E r \in rows(k) : FracLe(<<7, 10>>, r.overall_score)
            low(k)  == \E r \in rows(k) : FracLe(r.overall_score, <<3, 10>>)
        IN  /\ Profile(c).strengths = {k \in CategoryIds : high(k)}
            /\ Profile(c).challenges = {k \in CategoryIds : low(k)}
            /\ Profile(c).strengths \cap Profile(c).challenges = {}
            /\ \A k \in CategoryIds :
                  (~high(k) /\ ~low(k)) =>
                      k \notin (Profile(c).strengths \cup Profile(c).challenges)

\* the attempts of a child by response type and outcome
Attempts(c, type) ==
    LET Is(a) == a.response_type = type
    IN  CountWhere(ChildActivities(session_activities, c), Is)

Successes(c, type) ==
    LET Is(a) == a.response_type = type /\ a.is_correct
    IN  CountWhere(ChildActivities(session_activities, c), Is)

BothModalities(c) == Attempts(c, "verbal") > 0 /\ Attempts(c, "nonverbal") > 0

\* verbal ratio minus nonverbal ratio, up to a positive factor
RatioGap(c) ==
    Successes(c, "verbal") * Attempts(c, "nonverbal")
        - Successes(c, "nonverbal") * Attempts(c, "verbal")

\* C7 as stated: preferred_modality is set exactly when the child has a
\* verbal and a nonverbal attempt, to verbal only if the verbal success ratio
\* is the higher one and to nonverbal only if the nonverbal ratio is the
\* higher one.
C7_HigherRatioOnly ==
    \A c \in Children :
        /\ (Profile(c).preferred_modality # "None") <=> BothModalities(c)
        /\ Profile(c).preferred_modality = "verbal" => RatioGap(c) > 0
        /\ Profile(c).preferred_modality = "nonverbal" => RatioGap(c) < 0

\* C7 as amended: preferred_modality is set exactly when the child has a
\* verbal and a nonverbal attempt; it is verbal when the verbal success ratio
\* is strictly higher and nonverbal otherwise, equal ratios included.
C7_TieGoesToNonverbal ==
    \A c \in Children :
        /\ (Profile(c).preferred_modality # "None") <=> BothModalities(c)
        /\ BothModalities(c) =>
              /\ (Profile(c).preferred_modality = "verbal") <=> (RatioGap(c) > 0)
              /\ (Profile(c).preferred_modality = "nonverbal") <=> (RatioGap(c) <= 0)

\* a child with attempts in both modalities and equal success ratios
C7_Witness ==
    \E c \in Children :
        /\ BothModalities(c)
        /\ RatioGap(c) = 0
        /\ Profile(c).preferred_modality = "nonverbal"

\* C8: recommended_level is hard when the mean of the child's overall_score
\* values is above 0.75, medium when it is above 0.5 and at most 0.75, easy
\* otherwise; the mean is always defined; a child without performance rows
\* gets easy and no strengths or challenges.
C8_RecommendedLevel ==
    \A c \in Children :
        LET refs == Performances(child_performance, c)
            n    == Cardinality(refs)
            sum  == ScoreSum(child_performance, c, refs)
        IN  /\ AvgScore(child_performance, c)[2] > 0
            /\ refs # {} =>
                  Profile(c).recommended_level =
                      IF 4 * sum[1] > 3 * n * sum[2] THEN "hard"
                      ELSE IF 2 * sum[1] > n * sum[2] THEN "medium"
                      ELSE "easy"
            /\ refs = {} =>
                  /\ Profile(c).recommended_level = "easy"
                  /\ Profile(c).strengths = {}
                  /\ Profile(c).challenges = {}

\* one child with two performance rows and a mean in the medium band, beside
\* a child with attempts and no performance row or with neither
C8_Witness ==
    /\ \E c \in Children :
          /\ Cardinality(Performances(child_performance, c)) >= 2
          /\ Profile(c).recommended_level = "medium"
    /\ \E c \in Children : Performances(child_performance, c) = {}

(***************************************************************************)
(* Properties of the learning path                                         *)
(***************************************************************************)
DifficultyOf(k) ==
    LET i == CHOOSE j \in 1..Len(Catalog) : Catalog[j].id = k
    IN  Catalog[i].difficulty_level

GroupOf(item) ==
    CASE item.reason = "strength" -> 1
      [] item.reason = "new_at_level" -> 2
      [] item.reason = "challenge" -> 3
      [] OTHER -> 4

\* the three groups in order, each complete and in rank order, with the
\* targets 0.9, 0.7 and 0.5, and no category twice
OrderedPath(path, profile) ==
    LET n == Len(path)
        Listed(k, reason) ==
            \E i \in 1..n : path[i].category_id = k /\ path[i].reason = reason
        NewAtLevel(k) ==
            /\ k \notin (profile.strengths \cup profile.challenges)
            /\ DifficultyOf(k) = profile.recommended_level
    IN  /\ \A i \in 1..n :
              LET k == path[i].category_id IN
              \/ /\ path[i].reason = "strength"
                 /\ k \in profile.strengths
                 /\ path[i].target_score = 9
              \/ /\ path[i].reason = "new_at_level"
                 /\ NewAtLevel(k)
                 /\ path[i].target_score = 7
              \/ /\ path[i].reason = "challenge"
                 /\ k \in profile.challenges
                 /\ path[i].target_score = 5
        /\ \A k \in CategoryIds :
              /\ k \in profile.strengths => Listed(k, "strength")
              /\ NewAtLevel(k) => Listed(k, "new_at_level")
              /\ k \in profile.challenges => Listed(k, "challenge")
        /\ \A i, j \in 1..n :
              i < j =>
                  /\ GroupOf(path[i]) <= GroupOf(path[j])
                  /\ GroupOf(path[i]) = GroupOf(path[j]) =>
                        DifficultyRank(DifficultyOf(path[i].category_id))
                            <= DifficultyRank(DifficultyOf(path[j].category_id))
                  /\ path[i].category_id # path[j].category_id

\* C9: a generated path lists the strengths, then the categories at the
\* recommended level that are neither strength nor challenge, then the
\* challenges, with targets 0.9, 0.7 and 0.5, each group in the order
\* easy < medium < hard < unknown, no category twice, every item pending.
C9_PathOrder ==
    \A c \in Children, categories \in QueryCategories :
        LET items == generate_learning_path_items(Profile(c), categories)
        IN  /\ OrderedPath(items, Profile(c))
            /\ OrderedPath(generate_learning_path(Profile(c), categories), Profile(c))
            /\ \A i \in 1..Len(items) : items[i].status = "pending"

\* C10: the priorities of a child's path items are 1..n in emission order,
\* in the generated list and in the persisted rows.
C10_PrioritiesContiguous ==
    \A c \in Children :
        /\ \A categories \in QueryCategories :
              LET items == generate_learning_path_items(Profile(c), categories)
              IN  \A i \in 1..Len(items) : items[i].priority = i
        /\ \A i \in 1..Len(learning_paths[c]) :
              learning_paths[c][i].current_priority = i

(***************************************************************************)
(* Properties of the path update                                           *)
(***************************************************************************)
PathItems(path) == IF path.kind = "dict" THEN path.paths ELSE path.items

\* some performance row of (c, k) satisfies Cond
SomeScore(c, k, Cond(_)) ==
    \E j \in 1..Len(child_performance[c, k]) :
        Cond(child_performance[c, k][j].overall_score)

NoScore(c, k) == child_performance[c, k] = << >>

\* every update_learning_path(c) call enabled in the current state, as the
\* pair <<path the call reads, rows of c it leaves>>
Updates(c) ==
    {<<get_current_learning_path(learning_paths, child_performance,
            session_activities, c, q[1], q[2], q[3]),
       UpdateLearningPathResult(learning_paths, child_performance,
            session_activities, c, q[1], q[2], q[3], q[4])[c]>> :
        q \in QueryCategories \X ReadOrders(learning_paths[c])
                \X FirstRows(child_performance, c) \X FirstRows(child_performance, c)}

\* the update leaves the item of category k with the given target
LeavesTarget(after, k, target) ==
    \E j \in 1..Len(after) :
        after[j].category_id = k /\ after[j].target_score = target

\* C11: update_learning_path raises by 0.1, up to 1.0, the target of every
\* path item whose category has a performance row with
\* overall_score >= 0.9 * target, the boundary included.
C11_RaisedFromNinetyPercent ==
    \A c \in Children : \A u \in Updates(c) :
        \A i \in 1..Len(PathItems(u[1])) :
            LET k == PathItems(u[1])[i].category_id
                t == PathItems(u[1])[i].target_score
                AtLeast(score) == FracLe(<<9 * t, 100>>, score)
            IN  SomeScore(c, k, AtLeast) => LeavesTarget(u[2], k, Min(10, t + 1))

\* C12: update_learning_path lowers by 0.1, down to 0.3, the target of an
\* item whose overall_score is under 50% of the target, keeps the target of
\* an item whose score is from 50% to under 90% of it or whose category has
\* no performance row, and every stored target stays within [0.3, 1.0].
C12_LoweredUnderHalf ==
    \A c \in Children :
        /\ \A u \in Updates(c) :
              \A i \in 1..Len(PathItems(u[1])) :
                  LET k == PathItems(u[1])[i].category_id
                      t == PathItems(u[1])[i].target_score
                      UnderHalf(score) == FracLt(score, <<t, 20>>)
                      Between(score) ==
                          FracLe(<<t, 20>>, score) /\ FracLt(score, <<9 * t, 100>>)
                  IN  /\ SomeScore(c, k, UnderHalf) =>
                            LeavesTarget(u[2], k, Max(3, t - 1))
                      /\ (SomeScore(c, k, Between) \/ NoScore(c, k)) =>
                            LeavesTarget(u[2], k, t)
        /\ \A i \in 1..Len(learning_paths[c]) :
              /\ 3 <= learning_paths[c][i].target_score
              /\ learning_paths[c][i].target_score <= 10

\* the path_data of every save_learning_path(c, path_data) call an
\* update_learning_path(c) enabled in the current state makes
Saves(c) ==
    LET Read(q) == get_current_learning_path(learning_paths, child_performance,
                        session_activities, c, q[1], q[2], q[3])
    IN  {UpdatedPath(Read(q), child_performance, c, q[4]) :
            q \in {r \in QueryCategories \X ReadOrders(learning_paths[c])
                            \X FirstRows(child_performance, c)
                            \X FirstRows(child_performance, c) :
                      ~UpdateRaises(Read(r), child_performance, c)}}

\* C13: save_learning_path(child, items) leaves as the child's stored path
\* exactly one row per element of items, in their order, none of the prior
\* rows, and leaves the rows of every other child as they were.
C13_PersistReplaces ==
    \A c \in Children : \A path_data \in Saves(c) :
        LET items == PathItems(path_data)
            after == save_learning_path(learning_paths, c, path_data)
        IN  /\ Len(after[c]) = Len(items)
            /\ \A i \in 1..Len(items) :
                  /\ after[c][i].category_id = items[i].category_id
                  /\ after[c][i].target_score = items[i].target_score
            /\ \A d \in Children \ {c} : after[d] = learning_paths[d]

\* a save over a stored path while another child has a stored path too
C13_Witness ==
    \E c \in Children :
        /\ learning_paths[c] # << >>
        /\ Saves(c) # {}
        /\ \E d \in Children \ {c} : learning_paths[d] # << >>

\* the same rows, whatever their order
SameRows(a, b) ==
    /\ Len(a) = Len(b)
    /\ \A r \in {a[i] : i \in 1..Len(a)} :
          Cardinality({i \in 1..Len(a) : a[i] = r})
              = Cardinality({i \in 1..Len(b) : b[i] = r})

Saving(p) == pc[p] \in {"deleted", "added"}

RowsToCommit(p) ==
    save_learning_path(learning_paths, call[p].child_id, call[p].path_data)[call[p].child_id]

\* C14: while save_learning_path replaces a non-empty path by a non-empty
\* path, a reader of the child's path gets the whole old path or the whole
\* new one, never an empty path or a mix.
C14_PersistAtomic ==
    \A p \in Procs :
        (Saving(p) /\ call[p].deleted # << >> /\ RowsToCommit(p) # << >>) =>
            \A seen \in ReadCommitted(learning_paths, call[p].child_id) :
                /\ seen # << >>
                /\ SameRows(seen, call[p].deleted) \/ SameRows(seen, RowsToCommit(p))

\* a save that has deleted a stored path and added the new rows, not yet
\* committed
C14_Witness ==
    \E p \in Procs :
        /\ pc[p] = "added"
        /\ call[p].deleted # << >>
        /\ RowsToCommit(p) # << >>

\* C27: update_learning_path on a child with stored path items completes
\* without error and leaves as many items as before, each with the category,
\* priority and status it had.
C27_UpdateKeepsItems ==
    \A c \in Children :
        learning_paths[c] # << >> =>
            \A u \in Updates(c) :
                /\ ~UpdateRaises(u[1], child_performance, c)
                /\ Len(u[2]) = Len(learning_paths[c])
                /\ \A i \in 1..Len(u[2]) :
                      /\ u[2][i].category_id = PathItems(u[1])[i].category_id
                      /\ u[2][i].current_priority = PathItems(u[1])[i].current_priority
                      /\ u[2][i].status = PathItems(u[1])[i].status

\* C28 as stated: when save_learning_path rejects its path_data the child's
\* stored items are as they were, and the rejection comes before any stored
\* item is deleted.
C28_RejectedBeforeDelete ==
    \A p \in Procs :
        pc[p] = "rejected" =>
            /\ learning_paths[call[p].child_id] = call[p].deleted
            /\ call[p].deleted = << >>

\* C28 as amended: when save_learning_path rejects its path_data nothing has
\* been committed, so the child's committed items are the ones the call
\* found; the DELETE of these items was issued in the open transaction
\* before the rejection and is not committed.
C28_RejectedWithoutCommit ==
    \A p \in Procs :
        pc[p] = "rejected" =>
            /\ ~ValidPathData(call[p].path_data)
            /\ learning_paths[call[p].child_id] = call[p].deleted
            /\ \A seen \in ReadCommitted(learning_paths, call[p].child_id) :
                  SameRows(seen, call[p].deleted)

\* a rejection for a child with stored items
C28_Witness ==
    \E p \in Procs : pc[p] = "rejected" /\ call[p].deleted # << >>

(***************************************************************************)
(* Properties of select_next_activity                                      *)
(***************************************************************************)
Selected(p) == "result" \in DOMAIN call[p]

\* the inputs of the call of p, read from the store it ran against
SelItems(p) == ItemsOf(activity_items, call[p].session.category_id)
SelLevel(p) == CategoryLevel(call[p].session.category_id)
SelRows(p) == child_performance[call[p].session.child_id, call[p].session.category_id]
SelRecent(p) == RecentIds(session_activities, call[p].session)

\* the call of p returned an item for a child with overall_score >= 0.1
ReturnedInBandMode(p) ==
    /\ Selected(p)
    /\ call[p].result.kind = "item"
    /\ Len(SelRows(p)) = 1
    /\ FracLe(<<1, 10>>, SelRows(p)[1].overall_score)

SelBand(p) == Band(SelRows(p)[1].overall_score)

\* positions of the items of the band
BandPositions(p) ==
    {i \in 1..Len(SelItems(p)) : InBand(SelItems(p)[i], SelLevel(p), SelBand(p))}

\* positions of the first 3, the last 3, or the middle slice (all items when
\* there are at most 6)
FallbackPositions(p) ==
    LET n == Len(SelItems(p)) IN
    CASE SelBand(p) = "easy" -> {i \in 1..n : i <= 3}
      [] SelBand(p) = "hard" -> {i \in 1..n : i > n - 3}
      [] SelBand(p) = "medium" -> {i \in 1..n : n > 6 => (i > 3 /\ i <= n - 3)}

\* C15 as stated: for a score >= 0.1 the item returned is in the difficulty
\* band of the score, and it was already attempted in the session only when
\* every item of the band was.
C15_NeverOutsideBand ==
    \A p \in Procs :
        ReturnedInBandMode(p) =>
            /\ InBand(call[p].result.item, SelLevel(p), SelBand(p))
            /\ call[p].result.item.id \in SelRecent(p) =>
                  \A i \in BandPositions(p) : SelItems(p)[i].id \in SelRecent(p)

\* C15 as amended: when the band holds an item the item returned is in the
\* band; when it holds none the item returned is one of the fallback slice;
\* an item already attempted in the session is returned only when every
\* candidate (of the band, or of the slice when the band is empty) was.
C15_BandOrFallback ==
    \A p \in Procs :
        ReturnedInBandMode(p) =>
            LET from == IF BandPositions(p) # {} THEN BandPositions(p)
                        ELSE FallbackPositions(p)
            IN  /\ \E i \in from : SelItems(p)[i] = call[p].result.item
                /\ BandPositions(p) # {} =>
                      InBand(call[p].result.item, SelLevel(p), SelBand(p))
                /\ call[p].result.item.id \in SelRecent(p) =>
                      \A i \in from : SelItems(p)[i].id \in SelRecent(p)

\* an attempted item of the band returned because the whole band was
\* attempted, while the category has an item outside the band
C15_Witness ==
    \E p \in Procs :
        /\ ReturnedInBandMode(p)
        /\ BandPositions(p) # {}
        /\ BandPositions(p) # 1..Len(SelItems(p))
        /\ call[p].result.item.id \in SelRecent(p)

\* C16: select_next_activity returns none exactly when the category has no
\* item, and returns an item whenever it has one.
C16_NoneIffEmpty ==
    \A p \in Procs :
        Selected(p) =>
            /\ (call[p].result.kind = "none") <=> (SelItems(p) = << >>)
            /\ SelItems(p) # << >> => call[p].result.kind = "item"

\* the call of p ran for a child without a performance row in the category,
\* or with overall_score < 0.1, over a category with items
StartsWithEasiest(p) ==
    /\ Selected(p)
    /\ SelItems(p) # << >>
    /\ \/ SelRows(p) = << >>
       \/ Len(SelRows(p)) = 1 /\ FracLt(SelRows(p)[1].overall_score, <<1, 10>>)

\* the difficulty of an item, the category's when the item has none
EffectiveLevel(p, i) ==
    IF SelItems(p)[i].difficulty_level # "None"
    THEN SelItems(p)[i].difficulty_level ELSE SelLevel(p)

\* easy < medium < hard
LevelOrder(level) ==
    CASE level = "easy" -> 1
      [] level = "medium" -> 2
      [] level = "hard" -> 3

\* C24: without a performance row, or with overall_score < 0.1, the item
\* returned is the first in catalog order among those of the lowest
\* difficulty under easy < medium < hard, so never a hard item while a medium
\* one exists.
C24_LowestDifficultyFirst ==
    \A p \in Procs :
        (/\ StartsWithEasiest(p)
         /\ \A i \in 1..Len(SelItems(p)) : EffectiveLevel(p, i) # "None") =>
            /\ call[p].result.kind = "item"
            /\ \E i \in 1..Len(SelItems(p)) :
                  /\ SelItems(p)[i] = call[p].result.item
                  /\ \A j \in 1..Len(SelItems(p)) :
                        \/ LevelOrder(EffectiveLevel(p, i)) < LevelOrder(EffectiveLevel(p, j))
                        \/ /\ LevelOrder(EffectiveLevel(p, i)) = LevelOrder(EffectiveLevel(p, j))
                           /\ i <= j

\* positions of the candidates chosen by the band filter or its fallback
CandidatePositions(p) ==
    IF BandPositions(p) # {} THEN BandPositions(p) ELSE FallbackPositions(p)

\* item ids with a SessionActivity row of the session with the given id
AttemptedIn(session_id) ==
    {a.item_id : a \in {x \in BagToSet(session_activities) :
                            "item_id" \in DOMAIN x /\ x.session.id = session_id}}

\* C25: for a score >= 0.1, when some candidate was not attempted in the
\* current session the item returned was not attempted in it, whatever the
\* modality sort does and whatever was attempted in other sessions.
C25_UnattemptedPreferred ==
    \A p \in Procs :
        ReturnedInBandMode(p) =>
            ((\E i \in CandidatePositions(p) :
                  SelItems(p)[i].id \notin AttemptedIn(call[p].session.id))
             => call[p].result.item.id \notin AttemptedIn(call[p].session.id))

\* an item attempted in the child's earlier session is returned while another
\* candidate is passed over for its attempt in the current session
C25_Witness ==
    \E p \in Procs :
        /\ ReturnedInBandMode(p)
        /\ call[p].result.item.id \in AttemptedIn("s1")
        /\ call[p].result.item.id \notin AttemptedIn(call[p].session.id)
        /\ \E i \in CandidatePositions(p) :
              SelItems(p)[i].id \in AttemptedIn(call[p].session.id)

\* the candidates left after the recency exclusion
FinalPositions(p) ==
    LET fresh == {i \in CandidatePositions(p) :
                     SelItems(p)[i].id \notin AttemptedIn(call[p].session.id)}
    IN  IF fresh # {} THEN fresh ELSE CandidatePositions(p)

\* the item carries the asset of the modality: audio for verbal, image for
\* nonverbal
HasAsset(item, modality) ==
    IF modality = "verbal" THEN item.audio_url ELSE item.image_url

\* C26: when the preferred modality is known and the final candidates hold
\* items with and items without the matching asset, the item returned
\* carries the matching asset.
C26_MatchingAssetFirst ==
    \A p \in Procs :
        ReturnedInBandMode(p) =>
            LET modality == Profile(call[p].session.child_id).preferred_modality
            IN  (/\ modality # "None"
                 /\ \E i \in FinalPositions(p) : HasAsset(SelItems(p)[i], modality)
                 /\ \E i \in FinalPositions(p) : ~HasAsset(SelItems(p)[i], modality))
                => HasAsset(call[p].result.item, modality)

(***************************************************************************)
(* Properties of the phonetic similarity engine                            *)
(***************************************************************************)
Analysed(p) == "analysis" \in DOMAIN call[p]

NormalizedAttempt(p) == normalize_disfluencies(call[p].transcription)
ExpectedWord(p) == CleanExpected(call[p].expected)

\* ch-ch-...-, n times
Repetitions(ch, n) == [i \in 1..(2 * n) |-> IF i % 2 = 1 THEN ch ELSE "-"]

\* the transcript is the word preceded by hyphen-joined repetitions of its
\* first letter
Stuttered(word, transcription) ==
    /\ word # << >>
    /\ \A i \in 1..Len(word) : word[i] \in LowerLetters
    /\ \E n \in 1..MaxTranscript : transcription = Repetitions(word[1], n) \o word

\* C17: for a transcript made of the expected word preceded by hyphen-joined
\* repetitions of its first letter, the normalized attempt is the expected
\* word, the similarity is 1.0 and is_correct is true.
C17_StutterNormalized ==
    \A p \in Procs :
        (Analysed(p) /\ Stuttered(call[p].expected, call[p].transcription)) =>
            /\ NormalizedAttempt(p) = call[p].expected
            /\ call[p].analysis.kind = "result"
            /\ FracEq(call[p].analysis.similarity_score, <<1, 1>>)
            /\ call[p].analysis.is_correct

\* the tokens of the raw transcript
RawTokens(p) == Split(call[p].transcription, << >>, << >>)

\* C18 as stated: when the raw transcript has more than one token and all
\* tokens are identical, the result is correct with similarity 0.95 and the
\* tag "echolalia"; for every other transcript the tag is absent.
C18_EcholaliaTag ==
    \A p \in Procs :
        Analysed(p) =>
            IF Len(RawTokens(p)) > 1 /\ \A i \in 1..Len(RawTokens(p)) : RawTokens(p)[i] = RawTokens(p)[1]
            THEN /\ call[p].analysis.kind = "result"
                 /\ call[p].analysis.is_correct
                 /\ FracEq(call[p].analysis.similarity_score, <<95, 100>>)
                 /\ call[p].analysis.special_case = "echolalia"
            ELSE call[p].analysis.kind = "result" =>
                     call[p].analysis.special_case = "None"

\* more than one token, all the same word when letter case is ignored
SameWordRepeated(p) ==
    /\ Len(RawTokens(p)) > 1
    /\ \E word \in {Lower(RawTokens(p)[1])} :
          \A i \in 1..Len(RawTokens(p)) : Lower(RawTokens(p)[i]) = word

\* C18 as amended: the tokens are compared after lowercasing.
C18_EcholaliaIgnoringCase ==
    \A p \in Procs :
        Analysed(p) =>
            IF SameWordRepeated(p)
            THEN /\ call[p].analysis.kind = "result"
                 /\ call[p].analysis.is_correct
                 /\ FracEq(call[p].analysis.similarity_score, <<95, 100>>)
                 /\ call[p].analysis.special_case = "echolalia"
            ELSE call[p].analysis.kind = "result" =>
                     call[p].analysis.special_case = "None"

\* a repeated word tagged although the normal scoring of the attempt would
\* not have accepted it
C18_Witness ==
    \E p \in Procs :
        /\ Analysed(p)
        /\ SameWordRepeated(p)
        /\ call[p].analysis.special_case = "echolalia"
        /\ LET normal == calculate_asd_similarity(ExpectedWord(p), NormalizedAttempt(p), "none")
           IN  normal.kind = "score" /\ FracLt(normal.similarity, <<7, 10>>)

\* C19: a transcript that normalizes to the empty string, scored against a
\* non-empty expected word, gives a result with near-zero similarity (at
\* most the boosts) and is_correct false; nothing is raised.
C19_EmptyTranscriptScored ==
    \A p \in Procs :
        (Analysed(p) /\ ExpectedWord(p) # << >> /\ NormalizedAttempt(p) = << >>) =>
            /\ call[p].analysis.kind = "result"
            /\ ~call[p].analysis.is_correct
            /\ FracLe(call[p].analysis.similarity_score, <<45, 100>>)

\* C20: every result has its similarity in [0, 1], and is_correct is true
\* exactly when the similarity is at least 0.7.
C20_SimilarityBounded ==
    \A p \in Procs :
        (Analysed(p) /\ call[p].analysis.kind = "result") =>
            /\ FracLe(<<0, 1>>, call[p].analysis.similarity_score)
            /\ FracLe(call[p].analysis.similarity_score, <<1, 1>>)
            /\ call[p].analysis.is_correct <=>
                  FracLe(<<7, 10>>, call[p].analysis.similarity_score)

\* an attempt that is no variant of the expected word and reaches 1.0 by the
\* boosts
C20_Witness ==
    \E p \in Procs :
        /\ Analysed(p)
        /\ call[p].analysis.kind = "result"
        /\ call[p].analysis.special_case = "None"
        /\ NormalizedAttempt(p) \notin get_phonetic_variants(ExpectedWord(p)) \cup {ExpectedWord(p)}
        /\ FracEq(call[p].analysis.similarity_score, <<1, 1>>)
        /\ LET base == <<Max(Max(Len(ExpectedWord(p)), Len(NormalizedAttempt(p))), 1)
                           - levenshtein_distance(ExpectedWord(p), NormalizedAttempt(p)),
                        Max(Max(Len(ExpectedWord(p)), Len(NormalizedAttempt(p))), 1)>>
           IN  FracLt(<<55, 100>>, base)

(***************************************************************************)
(* Properties of recording and deleting                                    *)
(***************************************************************************)
\* C29: every recorded SessionActivity references an item that exists.
C29_AttemptsReferenceItems ==
    \A a \in BagToSet(session_activities) : a.item_id \in ItemIds(activity_items)

\* an attempt was recorded between the lookup and the commit of a delete of
\* its item, and the delete was refused
C29_Witness ==
    \E p \in Procs :
        /\ call[p] = Answered(500)
        /\ session_activities # EmptyBag
        /\ Len(activity_items) = Cardinality(IntegrityItems)

(***************************************************************************)
(* Properties of the ConnectionManager                                     *)
(***************************************************************************)
\* the number of times connection c is in the room of session s
TimesInRoom(c, s) ==
    IF s \in DOMAIN session_rooms
    THEN Cardinality({i \in 1..Len(session_rooms[s]) : session_rooms[s][i] = c})
    ELSE 0

\* the connections a broadcast to s reaches when every send succeeds
Reached(s) ==
    broadcast_to_session(ThisManager, s, [c \in Connections |-> "ok"]).sent

\* C30: a connection id is in session_rooms[s] exactly when connection_sessions
\* maps it to s, at most once and in at most one room; after disconnect it is
\* in no room and not in active_connections; a broadcast to s reaches only
\* connections joined to s.
C30_RoomsConsistent ==
    \A c \in Connections :
        /\ \A s \in SessionIds :
               /\ TimesInRoom(c, s) > 0 <=> DictGetOrNone(connection_sessions, c) = s
               /\ TimesInRoom(c, s) <= 1
               /\ c \in Reached(s) => DictGetOrNone(connection_sessions, c) = s
        /\ Cardinality({s \in SessionIds : TimesInRoom(c, s) > 0}) <= 1
        /\ pc[c] = "closed" =>
               /\ c \notin active_connections
               /\ \A s \in SessionIds : TimesInRoom(c, s) = 0

(***************************************************************************)
(* Properties of get_recommendations                                       *)
(***************************************************************************)
\* the calls of get_recommendations that have returned
Recommended == {p \in Procs : "recommendations" \in DOMAIN call[p]}

\* the child of the call has no ChildPerformance row
NewChild(p) == Performances(child_performance, call[p].child_id) = {}

\* C21: for a child without performance rows get_recommendations returns the
\* starter payload: practice_more empty, next_activities of at most 3 easy
\* categories with at most 3 items each, the two fixed texts.
C21_NewChildStarter ==
    \A p \in Recommended :
        NewChild(p) =>
            LET r == call[p].recommendations
            IN  /\ r.practice_more = << >>
                /\ Len(r.next_activities) <= 3
                /\ \A i \in 1..Len(r.next_activities) :
                      /\ Len(r.next_activities[i].items) <= 3
                      /\ \E j \in 1..Len(RecommendCategories) :
                            /\ RecommendCategories[j].name = r.next_activities[i].category
                            /\ RecommendCategories[j].difficulty_level = "easy"
                /\ r.progress_tracking = "New learner - starting with basic activities"
                /\ r.encouragement = "Let's get started with some fun activities!"

\* a new child's payload lists three categories, one of them with three
\* items out of more
C21_Witness ==
    \E p \in Recommended :
        /\ NewChild(p)
        /\ Len(call[p].recommendations.next_activities) = 3
        /\ \E i \in 1..3 :
              Len(call[p].recommendations.next_activities[i].items) = 3
        /\ Len(activity_items) = Len(RecommendItems)

\* C22: a classifier that is unavailable gives the label of the success-rate
\* band (> 0.8 Actions, > 0.6 Objects, else Animals); a raising feature
\* preparation or prediction gives exactly the rule-based payload.
C22_PredictionFailuresDegrade ==
    \A p \in Recommended :
        LET c == call[p].child_id
            r == call[p].recommendations
            rate == AvgScore(child_performance, c)
            RuleBased == {"practice_more", "next_activities", "progress_tracking",
                          "encouragement"}
        IN  /\ [f \in RuleBased |-> r[f]] =
                   _get_rule_based_recommendations(child_performance, activity_items, c)
            /\ (call[p].prepared = "raises" \/ call[p].predicted = "raises") =>
                   DOMAIN r = RuleBased
            /\ (call[p].prepared = "ok" /\ call[p].predicted = "unavailable") =>
                   /\ 10 * rate[1] > 8 * rate[2] => r.ml_recommendation = "Actions"
                   /\ (10 * rate[1] <= 8 * rate[2] /\ 10 * rate[1] > 6 * rate[2]) =>
                          r.ml_recommendation = "Objects"
                   /\ 10 * rate[1] <= 6 * rate[2] => r.ml_recommendation = "Animals"

\* the classifier was unavailable for a child whose success rate is in the
\* middle band
C22_Witness ==
    \E p \in Recommended :
        /\ call[p].prepared = "ok" /\ call[p].predicted = "unavailable"
        /\ call[p].recommendations.ml_recommendation = "Objects"

(***************************************************************************)
(* Properties of the trend                                                 *)
(***************************************************************************)
\* the calls of get_progress_trends that have returned
Tracked == {p \in Procs : "weekly_trend" \in DOMAIN call[p]}

\* the sessions with activities in the window of a call, each with its date
\* and its score
InWindow(p, days) ==
    _get_timeframe_trend(session_activities, call[p].child_id, call[p].today, days)

\* the label for the rows of a window: by the number of calendar weeks from
\* the first to the last row and by the means of the first and the last week
LabelFor(rows) ==
    LET weeks == {Week(r.date) : r \in rows}
        FirstWeek == {r \in rows : \A v \in weeks : Week(r.date) <= v}
        LastWeek == {r \in rows : \A v \in weeks : v <= Week(r.date)}
    IN  IF rows = {} THEN "no data"
        ELSE IF Cardinality(weeks) < 2 THEN "insufficient data"
        ELSE IF FracLt(MeanScore(FirstWeek), MeanScore(LastWeek)) THEN "improving"
        ELSE IF FracLt(MeanScore(LastWeek), MeanScore(FirstWeek)) THEN "declining"
        ELSE "stable"

\* C23: the trend of a window is "no data" without a session that was given
\* a score, "insufficient data" when its sessions are in fewer than 2 weekly
\* buckets, and else improving, declining or stable by the sign of the last
\* weekly mean minus the first; every call returns.
C23_TrendLabels ==
    \A p \in Tracked :
        /\ call[p].weekly_trend.trend = LabelFor(InWindow(p, 7))
        /\ call[p].monthly_trend.trend = LabelFor(InWindow(p, 30))

\* the window of the week holds one session with one attempt of score 0.5,
\* the month is empty otherwise
C23_Witness ==
    \E p \in Tracked :
        /\ \E r \in InWindow(p, 7) : InWindow(p, 30) = {r} /\ FracEq(r.score, <<1, 2>>)
        /\ call[p].weekly_trend.trend = "insufficient data"

====
